---- MODULE Spec2Model ----
(***************************************************************************)
(* limitup_lab: labeling, streak detection and backtest simulation.        *)
(*                                                                         *)
(* Tables (pandas DataFrames) are sequences of records, one record per     *)
(* row; the position in the sequence is the row's RangeIndex label minus   *)
(* one.  Trade dates are 8-digit YYYYMMDD numbers; every sample date lies  *)
(* in January 2024, so date order is number order and the difference of    *)
(* two dates is the number of calendar days between them.  The labeler's   *)
(* prices are integers in units of 0.000001 (DEFAULT_EPS), the simulator's *)
(* prices are whole numbers, and floating-point arithmetic is modelled as  *)
(* exact arithmetic.                                                       *)
(***************************************************************************)
EXTENDS Integers, Sequences, FiniteSets, TLC

VARIABLES
    pc,          \* control point of the component under analysis
    daily_df,    \* the bars table handed to the component
    streak_out,  \* the table returned by compute_limitup_streak
    can_buy_call, \* the last call of can_buy_limitup_day: arguments and outcome
    dataset,     \* the labeled bars table handed to run_backtest
    strategy,    \* the strategy instance: its class, its fill_model attribute, its runs
    frame,       \* the arguments and locals of the call in progress: of run_backtest,
                 \* of a filter of streaks.py, or of _prepare_dataset
    result,      \* the BacktestResult of the last completed run_backtest call
    labeled,     \* the bars table the labeler is applied to, with the columns it has
    label_call,  \* the last labeler call: function, eps, instruments, rules
    limit_call,  \* the last call of a function of limits.py: arguments and outcome
    prepared     \* the table returned by the filters, add_next_day_returns and
                 \* _prepare_dataset for the bars table daily_df

vars ==
    <<pc, daily_df, streak_out, can_buy_call, dataset, strategy, frame, result,
      labeled, label_call, limit_call, prepared>>

StreakVars == <<daily_df, streak_out>>
FillVars == <<can_buy_call>>
BacktestVars == <<dataset, strategy, frame, result>>
LabelVars == <<labeled, label_call, limit_call>>

\* The variables of a component that a specification does not exercise.
StreakIdle == daily_df = <<>> /\ streak_out = <<>>
FillIdle == can_buy_call = <<>>
BacktestIdle == dataset = <<>> /\ strategy = <<>> /\ frame = <<>> /\ result = <<>>
LabelIdle == labeled = <<>> /\ label_call = <<>> /\ limit_call = <<>>
PreparedIdle == prepared = <<>>

(***************************************************************************)
(* Bounds and sample domains.                                              *)
(***************************************************************************)
MaxRows == 3

Codes == {"AAA", "BBB"}

\* Raw trade_date cells: the compact form and, for one day, the dashed form
\* ("2024-01-03"), which pd.to_datetime parses to the same day.
RawTradeDates ==
    { [ymd |-> 20240102, dashed |-> FALSE],
      [ymd |-> 20240103, dashed |-> FALSE],
      [ymd |-> 20240103, dashed |-> TRUE],
      [ymd |-> 20240104, dashed |-> FALSE] }

\* Python's string order on the sample codes (sort_values on ts_code).
CodeRank(code) == IF code = "AAA" THEN 1 ELSE 2

(***************************************************************************)
(* Generic helpers.                                                        *)
(***************************************************************************)
Indices(df) == 1..Len(df)

RECURSIVE SortedSeqOf(_)
\* sorted(<set of numbers>): ascending sequence of the members.
SortedSeqOf(S) ==
    IF S = {} THEN <<>>
    ELSE LET m == CHOOSE x \in S : \A y \in S : x <= y
         IN  <<m>> \o SortedSeqOf(S \ {m})

\* strftime("%Y%m%d") of the parsed date: both raw forms give the compact date.
NormalizeTradeDate(raw) == raw.ymd

(***************************************************************************)
(* streaks.py: compute_limitup_streak                                      *)
(***************************************************************************)
\* labeled_daily: the copy with trade_date normalized (and label_limit_up
\* coerced; the label column is of bool dtype here, which coercion keeps).
LabeledDaily(df) ==
    [i \in Indices(df) |->
        [ts_code |-> df[i].ts_code,
         trade_date |-> NormalizeTradeDate(df[i].trade_date),
         label_limit_up |-> df[i].label_limit_up]]

\* market_trade_dates: sorted distinct trade dates of the whole input.
MarketTradeDates(df) ==
    SortedSeqOf({NormalizeTradeDate(df[i].trade_date) : i \in Indices(df)})

\* market_trade_positions[trade_date]: the 0-based rank in the calendar.
MarketTradePosition(df, date) ==
    LET cal == MarketTradeDates(df)
    IN  (CHOOSE k \in 1..Len(cal) : cal[k] = date) - 1

\* sort_values(["ts_code", "trade_date"]) is a stable lexsort: row i comes
\* before row j when its key is smaller, or equal with i earlier in the input.
StreakSortBefore(ld, i, j) ==
    \/ CodeRank(ld[i].ts_code) < CodeRank(ld[j].ts_code)
    \/ /\ ld[i].ts_code = ld[j].ts_code
       /\ \/ ld[i].trade_date < ld[j].trade_date
          \/ ld[i].trade_date = ld[j].trade_date /\ i < j

\* StreakOrder mutated: the table is scanned in input order, never sorted.
StreakOrderUnsorted(ld) == [k \in 1..Len(ld) |-> k]

\* The row labels of sorted_daily, in sorted order.
StreakOrder(ld) ==
    [k \in 1..Len(ld) |->
        CHOOSE i \in 1..Len(ld) :
            Cardinality({j \in 1..Len(ld) : StreakSortBefore(ld, j, i)}) = k - 1]

\* StockDaily mutated: no groupby, every stock's loop scans the whole table.
StockDailyUngrouped(ld, order, code) == order

\* The rows of one stock, in sorted order (one group of the groupby).
StockDaily(ld, order, code) ==
    SelectSeq(order, LAMBDA i : ld[i].ts_code = code)

\* is_continuous mutated: the calendar gap is ignored.
IsContinuousNoGapCheck(has_previous, previous_position, current_position) ==
    has_previous

\* is_continuous: previous_trade_position is not None and the positions differ by 1.
IsContinuous(has_previous, previous_position, current_position) ==
    has_previous /\ current_position - previous_position = 1

\* One iteration of the per-stock loop: the new loop state from the old.
StreakStep(df, ld, prev, i) ==
    LET current_is_limit_up == ld[i].label_limit_up
        current_trade_position == MarketTradePosition(df, ld[i].trade_date)
        is_continuous ==
            IsContinuous(prev.has_position, prev.position, current_trade_position)
        current_streak ==
            IF current_is_limit_up
            THEN IF prev.is_limit_up /\ is_continuous THEN prev.streak + 1 ELSE 1
            ELSE 0
    IN  [streak |-> current_streak,
         is_limit_up |-> current_is_limit_up,
         has_position |-> TRUE,
         position |-> current_trade_position]

RECURSIVE StreakScan(_, _, _, _, _)
\* The inner loop over one stock's rows g[k..]: the set of <<row, streak>> it writes.
StreakScan(df, ld, g, k, prev) ==
    IF k > Len(g) THEN {}
    ELSE LET next == StreakStep(df, ld, prev, g[k])
         IN  {<<g[k], next.streak>>} \cup StreakScan(df, ld, g, k + 1, next)

StreakInitState ==
    [streak |-> 0, is_limit_up |-> FALSE, has_position |-> FALSE, position |-> 0]

\* compute_limitup_streak: the returned table, back in input order (sort_index).
ComputeLimitupStreak(df) ==
    LET ld == LabeledDaily(df)
        order == StreakOrder(ld)
        written ==
            UNION { StreakScan(df, ld, StockDaily(ld, order, code), 1, StreakInitState)
                    : code \in Codes }
    IN  [i \in Indices(df) |->
            [ts_code |-> ld[i].ts_code,
             trade_date |-> ld[i].trade_date,
             label_limit_up |-> ld[i].label_limit_up,
             streak_up |-> (CHOOSE w \in written : w[1] = i)[2]]]

(***************************************************************************)
(* fill_models.py                                                          *)
(***************************************************************************)
\* A row handed to can_buy_limitup_day is a mapping: a key is either missing
\* or holds a Python value.  Sample values: the two bools, three strings and
\* the float NaN of an empty cell.
Missing == "<missing>"
LabelKeys == {"label_limit_up", "label_sealed", "label_one_word"}
AliasKeys == {"is_limit_up", "sealed", "one_word"}
PyBools == {"True", "False"}
PyFlagValues == PyBools \cup {"' Yes '", "'0'", "'abc'", "nan"}

\* str(value).strip().lower() on the sample values.
StripLower(value) ==
    CASE value = "True" -> "true"
      [] value = "False" -> "false"
      [] value = "' Yes '" -> "yes"
      [] value = "'0'" -> "0"
      [] value = "'abc'" -> "abc"
      [] value = "nan" -> "nan"

\* bool(value) of Python on the sample values: a non-empty string is true,
\* and so is the float NaN.
PyTruth(value) == value \in {"True", "' Yes '", "'0'", "'abc'", "nan"}

\* _as_bool of fill_models.py.
FillAsBool(value) ==
    IF value \in PyBools THEN value = "True"
    ELSE LET text == StripLower(value)
         IN  IF text \in {"1", "true", "t", "yes", "y"} THEN TRUE
             ELSE IF text \in {"0", "false", "f", "no", "n", "", "nan"} THEN FALSE
             ELSE PyTruth(value)

\* _get_flag: the primary key wins over the alias; no key reads as False.
GetFlag(row, primary_key, alias_key) ==
    IF row[primary_key] # Missing THEN FillAsBool(row[primary_key])
    ELSE IF row[alias_key] # Missing THEN FillAsBool(row[alias_key])
    ELSE FALSE

\* The model argument: a FillModel member or a string.
FillModelMembers == {"FillModel.IDEAL", "FillModel.CONSERVATIVE"}
FillModelArgs == FillModelMembers \cup {"' ideal'", "'Conservative'", "'paper'"}

\* _normalize_model / _normalize_fill_model: FillModel(str(model).strip().upper());
\* an unknown name raises ValueError.
NormalizeModel(model) ==
    CASE model \in {"FillModel.IDEAL", "' ideal'"} -> "IDEAL"
      [] model \in {"FillModel.CONSERVATIVE", "'Conservative'"} -> "CONSERVATIVE"
      [] OTHER -> "ValueError"

\* The CONSERVATIVE branch mutated: only a sealed day is refused.
ConservativeCanBuySealedOnly(is_sealed, is_one_word) == ~ is_sealed

\* The CONSERVATIVE branch: not (is_sealed or is_one_word).
ConservativeCanBuy(is_sealed, is_one_word) == ~ (is_sealed \/ is_one_word)

\* can_buy_limitup_day for a normalized fill model.
CanBuy(row, fill_model) ==
    LET is_limit_up == GetFlag(row, "label_limit_up", "is_limit_up")
    IN  IF ~ is_limit_up THEN FALSE
        ELSE IF fill_model = "IDEAL" THEN TRUE
        ELSE ConservativeCanBuy(GetFlag(row, "label_sealed", "sealed"),
                                GetFlag(row, "label_one_word", "one_word"))

\* can_buy_limitup_day: "True", "False", or the ValueError of an unknown model.
CanBuyLimitupDay(row, model) ==
    IF NormalizeModel(model) = "ValueError" THEN "ValueError"
    ELSE IF CanBuy(row, NormalizeModel(model)) THEN "True" ELSE "False"

(***************************************************************************)
(* Exact rational arithmetic, standing for the float arithmetic of the     *)
(* simulator: a rational is kept in lowest terms with a positive           *)
(* denominator, so equal rationals are equal records.                      *)
(***************************************************************************)
RECURSIVE Gcd(_, _)
Gcd(a, b) == IF b = 0 THEN a ELSE Gcd(b, a % b)

Abs(x) == IF x < 0 THEN 0 - x ELSE x

Frac(n, d) ==
    LET g == Gcd(Abs(n), Abs(d))
        sign == IF d < 0 THEN 0 - 1 ELSE 1
    IN  [num |-> sign * (n \div g), den |-> sign * (d \div g)]

FracOfInt(n) == [num |-> n, den |-> 1]
FracAdd(a, b) == Frac(a.num * b.den + b.num * a.den, a.den * b.den)
FracSub(a, b) == Frac(a.num * b.den - b.num * a.den, a.den * b.den)
FracMul(a, b) == Frac(a.num * b.num, a.den * b.den)
FracDiv(a, b) == Frac(a.num * b.den, a.den * b.num)
FracLess(a, b) == a.num * b.den < b.num * a.den
FracOne == FracOfInt(1)

(***************************************************************************)
(* strategy_base.py and strategies/                                        *)
(***************************************************************************)
BuyFirst == "buy_first_limitup_sell_next_close"
BuyNonOneWord == "buy_non_one_word_limitup_sell_next_open"
StrategyNames == {BuyFirst, BuyNonOneWord}

\* A Strategy subclass other than the two reference strategies, with no
\* fill_model and no exit_price_type attribute.
OtherStrategy == "other_strategy"

\* getattr(strategy, "exit_price_type", "next_close"): the class attribute of
\* a reference strategy, the default otherwise.
ExitPriceType(name) == IF name = BuyNonOneWord THEN "next_open" ELSE "next_close"

\* The columns generate_entries requires of the table (ensure_columns).
RequiredColumns(name) ==
    IF name = BuyFirst
    THEN {"label_limit_up", "streak_up", "label_sealed", "label_one_word"}
    ELSE {"label_limit_up", "label_one_word", "label_sealed"}

\* row.to_dict() as can_buy_limitup_day reads it: the label columns as bools.
RowToDict(row) ==
    [key \in LabelKeys \cup AliasKeys |->
        IF key \in LabelKeys THEN (IF row[key] THEN "True" ELSE "False") ELSE Missing]

\* The strategy's own condition mutated: any running streak passes for the
\* first-limit-up strategy.
StrategyConditionAnyStreak(name, row) ==
    IF name = BuyFirst THEN row.streak_up >= 1 ELSE ~ row.label_one_word

\* The strategy's own condition on a row.
StrategyCondition(name, row) ==
    IF name = BuyFirst THEN row.streak_up = 1 ELSE ~ row.label_one_word

\* generate_entries with self.fill_model = fill_model_attr: the boolean signal.
EntrySignal(name, rows, fill_model_attr) ==
    [i \in Indices(rows) |->
        /\ rows[i].label_limit_up
        /\ StrategyCondition(name, rows[i])
        /\ CanBuyLimitupDay(RowToDict(rows[i]), fill_model_attr) = "True"]

\* generate_entries raises ValueError when a required column is missing
\* (ensure_columns) and when self.fill_model names no fill model.
EntriesRaise(name, columns, rows, fill_model_attr) ==
    \/ ~ (RequiredColumns(name) \subseteq columns)
    \/ rows # <<>> /\ NormalizeModel(fill_model_attr) = "ValueError"

\* sort_values(["ts_code", "_trade_sort_key", "_original_order"]): row i before row j.
DateSortBefore(rows, i, j) ==
    \/ CodeRank(rows[i].ts_code) < CodeRank(rows[j].ts_code)
    \/ /\ rows[i].ts_code = rows[j].ts_code
       /\ \/ rows[i].trade_date < rows[j].trade_date
          \/ rows[i].trade_date = rows[j].trade_date /\ i < j

\* next_trade_date_series mutated: the next date of the market calendar on
\* which the stock has a row, when the calendar has no date in between.
NextTradeDateAdjacentOnly(rows, i) ==
    LET later == {j \in Indices(rows) :
                     rows[j].ts_code = rows[i].ts_code /\ DateSortBefore(rows, i, j)}
        adjacent == {j \in later :
                        \A h \in Indices(rows) :
                            ~ (rows[i].trade_date < rows[h].trade_date
                               /\ rows[h].trade_date < rows[j].trade_date)}
    IN  IF adjacent = {} THEN <<>>
        ELSE LET next == CHOOSE j \in adjacent :
                             \A h \in adjacent : h = j \/ DateSortBefore(rows, j, h)
             IN  <<rows[next].trade_date>>

\* next_trade_date_series: the trade_date of the stock's next row (shift(-1)
\* within the group), <<>> for the stock's last row (NaN).
NextTradeDate(rows, i) ==
    LET later == {j \in Indices(rows) :
                     rows[j].ts_code = rows[i].ts_code /\ DateSortBefore(rows, i, j)}
    IN  IF later = {} THEN <<>>
        ELSE LET next == CHOOSE j \in later :
                             \A h \in later : h = j \/ DateSortBefore(rows, j, h)
             IN  <<rows[next].trade_date>>

\* generate_exits: the next trade date on the rows with an entry, NA elsewhere.
ExitSignal(name, rows, fill_model_attr) ==
    LET entries == EntrySignal(name, rows, fill_model_attr)
    IN  [i \in Indices(rows) |-> IF entries[i] THEN NextTradeDate(rows, i) ELSE <<>>]

(***************************************************************************)
(* backtest.py                                                             *)
(***************************************************************************)
\* working_daily: the copy with trade_date normalized.
WorkingDaily(rows) ==
    [i \in Indices(rows) |-> [rows[i] EXCEPT !.trade_date = NormalizeTradeDate(@)]]

\* _build_price_lookup: of the rows of one (ts_code, trade_date) key the last
\* in input order is kept (stable sort, drop_duplicates keep="last").
PriceLookupRows(rows, code, date) ==
    {i \in Indices(rows) : rows[i].ts_code = code /\ rows[i].trade_date = date}

\* _build_price_lookup mutated: drop_duplicates keep="first".
PriceLookupFirst(rows, code, date) ==
    CHOOSE i \in PriceLookupRows(rows, code, date) :
        \A j \in PriceLookupRows(rows, code, date) : i <= j

PriceLookup(rows, code, date) ==
    CHOOSE i \in PriceLookupRows(rows, code, date) :
        \A j \in PriceLookupRows(rows, code, date) : j <= i

\* entry_price mutated: the open of the row under CONSERVATIVE.
EntryPriceOpenWhenConservative(row, fill_model) ==
    IF fill_model = "CONSERVATIVE" THEN row.open ELSE row.close

\* entry_price of fill_models.py: the close of the row, whatever the model.
EntryPrice(row, fill_model) == row.close

\* exit_price_column mutated: the columns are swapped.
ExitPriceColumnSwapped(exit_price_type) ==
    IF exit_price_type = "next_open" THEN "close" ELSE "open"

\* exit_price_column: "open" for next_open, "close" otherwise.
ExitPriceColumn(exit_price_type) ==
    IF exit_price_type = "next_open" THEN "open" ELSE "close"

\* The exit price mutated: the cost is added on the way out as well.
ExitTradePriceCostAdded(exit_base_price, total_cost_bps) ==
    FracMul(FracOfInt(exit_base_price), FracAdd(FracOne, Frac(total_cost_bps, 10000)))

\* exit_trade_price = exit_base_price * (1.0 - total_cost_bps / 10000.0)
ExitTradePrice(exit_base_price, total_cost_bps) ==
    FracMul(FracOfInt(exit_base_price), FracSub(FracOne, Frac(total_cost_bps, 10000)))

\* entry_trade_price = entry_base_price * (1.0 + total_cost_bps / 10000.0)
EntryTradePrice(entry_base_price, total_cost_bps) ==
    FracMul(FracOfInt(entry_base_price), FracAdd(FracOne, Frac(total_cost_bps, 10000)))

\* The body of the trade loop for an entry row whose exit resolves.
TradeRecord(name, fill_model, rows, i, exit_date, total_cost_bps) ==
    LET entry_row == rows[i]
        exit_row == rows[PriceLookup(rows, entry_row.ts_code, exit_date)]
        entry_base_price == EntryPrice(entry_row, fill_model)
        exit_base_price == exit_row[ExitPriceColumn(ExitPriceType(name))]
        entry_trade_price == EntryTradePrice(entry_base_price, total_cost_bps)
        exit_trade_price == ExitTradePrice(exit_base_price, total_cost_bps)
    IN  [strategy_name |-> name,
         fill_model |-> fill_model,
         ts_code |-> entry_row.ts_code,
         entry_date |-> entry_row.trade_date,
         entry_price |-> entry_trade_price,
         exit_date |-> exit_date,
         exit_price |-> exit_trade_price,
         ret_net |-> FracSub(FracDiv(exit_trade_price, entry_trade_price), FracOne)]

\* The skip conditions mutated: an exit on the entry date is skipped as well.
ExitResolvesLaterOnly(rows, entry_signal, exit_signal, i) ==
    /\ entry_signal[i]
    /\ exit_signal[i] # <<>>
    /\ exit_signal[i][1] > rows[i].trade_date
    /\ PriceLookupRows(rows, rows[i].ts_code, exit_signal[i][1]) # {}

\* An entry row yields a trade when its exit date is set and has a price row.
ExitResolves(rows, entry_signal, exit_signal, i) ==
    /\ entry_signal[i]
    /\ exit_signal[i] # <<>>
    /\ PriceLookupRows(rows, rows[i].ts_code, exit_signal[i][1]) # {}

RECURSIVE TradeRecords(_, _, _, _, _, _, _)
\* The trade loop over the rows i.. in input order: the list trade_records.
TradeRecords(name, fill_model, rows, entry_signal, exit_signal, total_cost_bps, i) ==
    IF i > Len(rows) THEN <<>>
    ELSE (IF ExitResolves(rows, entry_signal, exit_signal, i)
          THEN <<TradeRecord(name, fill_model, rows, i, exit_signal[i][1], total_cost_bps)>>
          ELSE <<>>)
         \o TradeRecords(name, fill_model, rows, entry_signal, exit_signal,
                         total_cost_bps, i + 1)

\* trades.sort_values(["entry_date", "ts_code"]): a stable sort of the records.
TradeSortBefore(records, i, j) ==
    \/ records[i].entry_date < records[j].entry_date
    \/ /\ records[i].entry_date = records[j].entry_date
       /\ \/ CodeRank(records[i].ts_code) < CodeRank(records[j].ts_code)
          \/ records[i].ts_code = records[j].ts_code /\ i < j

SortTrades(records) ==
    [k \in Indices(records) |->
        records[CHOOSE i \in Indices(records) :
            Cardinality({j \in Indices(records) : TradeSortBefore(records, j, i)}) = k - 1]]

RECURSIVE CompoundDay(_, _, _, _)
\* The inner loop of _build_equity_curve: equity *= 1 + ret_net for every trade
\* (from the k-th on) whose exit_date is trade_date.
CompoundDay(trades, trade_date, k, equity) ==
    IF k > Len(trades) THEN equity
    ELSE CompoundDay(trades, trade_date, k + 1,
            IF trades[k].exit_date = trade_date
            THEN FracMul(equity, FracAdd(FracOne, trades[k].ret_net))
            ELSE equity)

RECURSIVE EquityRows(_, _, _, _)
\* The outer loop of _build_equity_curve over the calendar from position k on.
EquityRows(trades, trade_dates, k, equity) ==
    IF k > Len(trade_dates) THEN <<>>
    ELSE LET next == CompoundDay(trades, trade_dates[k], 1, equity)
         IN  <<[trade_date |-> trade_dates[k], equity |-> next]>>
             \o EquityRows(trades, trade_dates, k + 1, next)

\* _build_equity_curve mutated: only the dates on which a trade exits get a point.
BuildEquityCurveExitDates(rows, trades) ==
    EquityRows(trades, SortedSeqOf({trades[k].exit_date : k \in Indices(trades)}), 1, FracOne)

\* _build_equity_curve: one point per distinct trade date, ascending, from 1.0.
BuildEquityCurve(rows, trades) ==
    EquityRows(trades, SortedSeqOf({rows[i].trade_date : i \in Indices(rows)}), 1, FracOne)

\* run_backtest after signal generation: the trades and the equity curve.
BuildResult(name, fill_model, rows, entry_signal, exit_signal, total_cost_bps) ==
    LET trades == SortTrades(TradeRecords(name, fill_model, rows, entry_signal,
                                          exit_signal, total_cost_bps, 1))
    IN  [trades |-> trades, equity_curve |-> BuildEquityCurve(rows, trades)]

(***************************************************************************)
(* The fill model as a state machine: a caller calls can_buy_limitup_day   *)
(* on a row mapping with a model argument.                                 *)
(***************************************************************************)
FlagRows ==
    { row \in [LabelKeys \cup AliasKeys -> PyFlagValues \cup {Missing}] :
        \A key \in AliasKeys : row[key] \in PyBools \cup {Missing} }

FillInit ==
    /\ pc = "fill"
    /\ FillIdle
    /\ StreakIdle
    /\ BacktestIdle
    /\ LabelIdle
    /\ PreparedIdle

FillCanBuy ==
    /\ pc = "fill"
    /\ \E row \in FlagRows, model \in FillModelArgs :
          can_buy_call' =
              [row |-> row, model |-> model, returned |-> CanBuyLimitupDay(row, model)]
    /\ pc' = "called"
    /\ UNCHANGED <<StreakVars, BacktestVars, LabelVars, prepared>>

FillNext == FillCanBuy

SpecFill == FillInit /\ [][FillNext]_vars

(***************************************************************************)
(* The streak tracker as a state machine: a caller builds a labeled table  *)
(* row by row, then calls compute_limitup_streak on it.                    *)
(***************************************************************************)
StreakRows ==
    [ts_code : Codes, trade_date : RawTradeDates, label_limit_up : BOOLEAN]

StreakInit ==
    /\ pc = "build"
    /\ daily_df = <<>>
    /\ streak_out = <<>>
    /\ FillIdle
    /\ BacktestIdle
    /\ LabelIdle
    /\ PreparedIdle

StreakAddRow ==
    /\ pc = "build"
    /\ Len(daily_df) < MaxRows
    /\ \E row \in StreakRows : daily_df' = Append(daily_df, row)
    /\ UNCHANGED <<pc, streak_out, FillVars, BacktestVars, LabelVars, prepared>>

StreakCompute ==
    /\ pc = "build"
    /\ Len(daily_df) > 0
    /\ streak_out' = ComputeLimitupStreak(daily_df)
    /\ pc' = "streaked"
    /\ UNCHANGED <<daily_df, FillVars, BacktestVars, LabelVars, prepared>>

StreakNext == StreakAddRow \/ StreakCompute

SpecStreak == StreakInit /\ [][StreakNext]_vars

(***************************************************************************)
(* The backtest as a state machine: a caller builds a labeled dataset and  *)
(* calls run_backtest on one strategy instance, once or again;             *)
(* run_backtest proceeds through _generate_signals (substitute the         *)
(* fill_model attribute, generate, restore in the finally clause) to the   *)
(* trade loop and the equity curve.                                        *)
(***************************************************************************)
MaxBars == 2

BarColumns ==
    {"ts_code", "trade_date", "open", "close",
     "label_limit_up", "label_sealed", "label_one_word", "streak_up"}

\* Sample bars: a plain day, an opened first board, a one-word first board, a
\* sealed first board and an opened second board.
BarShapes ==
    { [open |-> 12, close |-> 10, label_limit_up |-> FALSE, label_sealed |-> FALSE,
       label_one_word |-> FALSE, streak_up |-> 0],
      [open |-> 10, close |-> 11, label_limit_up |-> TRUE, label_sealed |-> FALSE,
       label_one_word |-> FALSE, streak_up |-> 1],
      [open |-> 11, close |-> 11, label_limit_up |-> TRUE, label_sealed |-> TRUE,
       label_one_word |-> TRUE, streak_up |-> 1],
      [open |-> 10, close |-> 11, label_limit_up |-> TRUE, label_sealed |-> TRUE,
       label_one_word |-> FALSE, streak_up |-> 1],
      [open |-> 11, close |-> 12, label_limit_up |-> TRUE, label_sealed |-> FALSE,
       label_one_word |-> FALSE, streak_up |-> 2] }

\* Two consecutive trading days in the compact YYYYMMDD form.
BarTradeDates == {d \in RawTradeDates : ~ d.dashed /\ d.ymd <= 20240103}

BarRows ==
    { [ts_code |-> code, trade_date |-> date, open |-> shape.open, close |-> shape.close,
       label_limit_up |-> shape.label_limit_up, label_sealed |-> shape.label_sealed,
       label_one_word |-> shape.label_one_word, streak_up |-> shape.streak_up]
      : code \in Codes, date \in BarTradeDates, shape \in BarShapes }

\* Sample (fee_bps, slippage_bps) arguments.  The arithmetic is exact, so the
\* size of the costs only keeps the rationals small.
CostPairs == {<<0, 0>>, <<1500, 500>>}

\* The FillModel member of a normalized name.
FillModelMember(fill_model) ==
    IF fill_model = "IDEAL" THEN "FillModel.IDEAL" ELSE "FillModel.CONSERVATIVE"

\* setattr(strategy, "fill_model", fill_model) mutated: the attribute is left alone.
SubstitutedFillModelKept(original_fill_model, fill_model) == original_fill_model

\* The value _generate_signals sets the attribute to before generating.
SubstitutedFillModel(original_fill_model, fill_model) == FillModelMember(fill_model)

\* The finally clause mutated: the attribute is not restored.
RestoredFillModelSkipped(original_fill_model, current_fill_model) == current_fill_model

\* The value the finally clause of _generate_signals sets the attribute to.
RestoredFillModel(original_fill_model, current_fill_model) == original_fill_model

\* The strategy is constructed (with either fill model) and the dataset is
\* empty; a dataset prepared without compute_limitup_streak has no streak_up
\* column, which only the first-limit-up strategy requires.  strategy.runs
\* counts the run_backtest calls on the instance: 0, 1, or 2 for more than one.
BacktestInit ==
    /\ pc = "bt_idle"
    /\ dataset \in [columns : {BarColumns, BarColumns \ {"streak_up"}}, rows : {<<>>}]
    /\ strategy \in [name : StrategyNames, fill_model : FillModelMembers, runs : {0}]
    /\ "streak_up" \notin dataset.columns => strategy.name = BuyFirst
    /\ frame = <<>>
    /\ result = <<>>
    /\ StreakIdle
    /\ FillIdle
    /\ LabelIdle
    /\ PreparedIdle

\* The bars offered to a strategy: every sample bar to a reference strategy;
\* to another strategy, whose signals do not come from the labels, the plain
\* bar and the sealed first board.
BarRowsFor(name) ==
    IF name \in StrategyNames
    THEN BarRows
    ELSE {row \in BarRows : row.label_limit_up => (row.label_sealed /\ ~ row.label_one_word)}

BtAddRow ==
    /\ pc = "bt_idle"
    /\ Len(dataset.rows) < MaxBars
    /\ \E row \in BarRowsFor(strategy.name) :
          dataset' = [dataset EXCEPT !.rows = Append(@, row)]
    /\ UNCHANGED <<pc, strategy, frame, result, StreakVars, FillVars, LabelVars, prepared>>

\* run_backtest up to the try of _generate_signals: the model argument is
\* normalized, the attribute saved and substituted.
BtEnter ==
    /\ pc \in {"bt_idle", "bt_done", "bt_raised"}
    /\ dataset.rows # <<>>
    /\ \E model \in FillModelArgs :
          /\ NormalizeModel(model) # "ValueError"
          /\ frame' = [fill_model |-> NormalizeModel(model),
                       original_fill_model |-> strategy.fill_model,
                       has_fill_model |-> TRUE,
                       raised |-> "",
                       entry_signal |-> <<>>,
                       exit_signal |-> <<>>,
                       fee_bps |-> 0,
                       slippage_bps |-> 0]
          /\ strategy' =
                [strategy EXCEPT
                    !.fill_model = SubstitutedFillModel(@, NormalizeModel(model)),
                    !.runs = IF @ = 0 THEN 1 ELSE 2]
    /\ result' = <<>>
    /\ pc' = "bt_try"
    /\ UNCHANGED <<dataset, StreakVars, FillVars, LabelVars, prepared>>

\* The try block: generate_entries and generate_exits read self.fill_model.
BtGenerate ==
    /\ pc = "bt_try"
    /\ LET rows == WorkingDaily(dataset.rows)
       IN  IF EntriesRaise(strategy.name, dataset.columns, rows, strategy.fill_model)
           THEN frame' = [frame EXCEPT !.raised = "ValueError"]
           ELSE frame' = [frame EXCEPT
                    !.entry_signal = EntrySignal(strategy.name, rows, strategy.fill_model),
                    !.exit_signal = ExitSignal(strategy.name, rows, strategy.fill_model)]
    /\ pc' = "bt_finally"
    /\ UNCHANGED <<dataset, strategy, result, StreakVars, FillVars, LabelVars, prepared>>

\* The finally clause: the attribute is restored; an exception then propagates.
BtFinally ==
    /\ pc = "bt_finally"
    /\ strategy' =
          [strategy EXCEPT
              !.fill_model =
                  IF frame.has_fill_model
                  THEN RestoredFillModel(frame.original_fill_model, @)
                  ELSE @]
    /\ pc' = IF frame.raised # "" THEN "bt_raised" ELSE "bt_trades"
    /\ UNCHANGED <<dataset, frame, result, StreakVars, FillVars, LabelVars, prepared>>

\* The rest of run_backtest: the costs are read, the trades and the equity
\* curve are built and returned.
BtTrades ==
    /\ pc = "bt_trades"
    /\ \E cost \in CostPairs :
          /\ frame' = [frame EXCEPT !.fee_bps = cost[1], !.slippage_bps = cost[2]]
          /\ result' = BuildResult(strategy.name, frame.fill_model,
                                   WorkingDaily(dataset.rows), frame.entry_signal,
                                   frame.exit_signal, cost[1] + cost[2])
    /\ pc' = "bt_done"
    /\ UNCHANGED <<dataset, strategy, StreakVars, FillVars, LabelVars, prepared>>

\* Exit dates a strategy may emit: the sample days and a day with no bars.
SignalExitDates == {d.ymd : d \in RawTradeDates}

\* Signals of a strategy, one (entry, exit) cell per row: no entry, or an
\* entry with an exit date or with NA.
SignalCells ==
    {[entry |-> FALSE, exit |-> <<>>]}
        \cup {[entry |-> TRUE, exit |-> e] : e \in {<<>>} \cup {<<d>> : d \in SignalExitDates}}

SignalsInit ==
    /\ pc = "bt_idle"
    /\ dataset = [columns |-> BarColumns, rows |-> <<>>]
    /\ strategy = [name |-> OtherStrategy, fill_model |-> Missing, runs |-> 0]
    /\ frame = <<>>
    /\ result = <<>>
    /\ StreakIdle
    /\ FillIdle
    /\ LabelIdle
    /\ PreparedIdle

\* run_backtest through _generate_signals for a strategy without a fill_model
\* attribute (has_fill_model is false, nothing is set or restored), whose
\* generate_entries and generate_exits return any signals of the table's
\* length.
BtSignals ==
    /\ pc = "bt_idle"
    /\ strategy.name = OtherStrategy
    /\ dataset.rows # <<>>
    /\ \E model \in FillModelArgs, cells \in [Indices(dataset.rows) -> SignalCells] :
          /\ NormalizeModel(model) # "ValueError"
          /\ frame' = [fill_model |-> NormalizeModel(model),
                       original_fill_model |-> Missing,
                       has_fill_model |-> FALSE,
                       raised |-> "",
                       entry_signal |-> [i \in Indices(dataset.rows) |-> cells[i].entry],
                       exit_signal |-> [i \in Indices(dataset.rows) |-> cells[i].exit],
                       fee_bps |-> 0,
                       slippage_bps |-> 0]
    /\ strategy' = [strategy EXCEPT !.runs = IF @ = 0 THEN 1 ELSE 2]
    /\ result' = <<>>
    /\ pc' = "bt_trades"
    /\ UNCHANGED <<dataset, StreakVars, FillVars, LabelVars, prepared>>

SignalsNext == BtAddRow \/ BtSignals \/ BtTrades

SpecSignals == SignalsInit /\ [][SignalsNext]_vars

BacktestNext == BtAddRow \/ BtEnter \/ BtGenerate \/ BtFinally \/ BtTrades

SpecBacktest == BacktestInit /\ [][BacktestNext]_vars

(***************************************************************************)
(* Signal generation on a streaked table: compute_limitup_streak, then the *)
(* strategy's generate_entries and generate_exits, as the tests call them  *)
(* on a default-constructed strategy.                                      *)
(***************************************************************************)
MaxExitRows == 3

\* Sample labeled bars on three consecutive days: a plain day of either
\* instrument and an opened limit-up day of the first.
ExitRows ==
    { row \in
        { [ts_code |-> code, trade_date |-> date, open |-> shape.open,
           close |-> shape.close, label_limit_up |-> shape.label_limit_up,
           label_sealed |-> shape.label_sealed, label_one_word |-> shape.label_one_word]
          : code \in Codes, date \in {d \in RawTradeDates : ~ d.dashed},
            shape \in {s \in BarShapes : s.streak_up < 2 /\ ~ s.label_sealed} }
      : row.label_limit_up => row.ts_code = "AAA" }

ExitsInit ==
    /\ pc = "ex_build"
    /\ dataset = [columns |-> BarColumns \ {"streak_up"}, rows |-> <<>>]
    /\ strategy \in [name : StrategyNames, fill_model : {"FillModel.CONSERVATIVE"}, runs : {0}]
    /\ frame = <<>>
    /\ result = <<>>
    /\ StreakIdle
    /\ FillIdle
    /\ LabelIdle
    /\ PreparedIdle

ExAddRow ==
    /\ pc = "ex_build"
    /\ Len(dataset.rows) < MaxExitRows
    /\ \E row \in ExitRows : dataset' = [dataset EXCEPT !.rows = Append(@, row)]
    /\ UNCHANGED <<pc, strategy, frame, result, StreakVars, FillVars, LabelVars, prepared>>

\* compute_limitup_streak on the table: the copy with trade_date normalized
\* and the streak_up column added.
ExComputeLimitupStreak ==
    /\ pc = "ex_build"
    /\ dataset.rows # <<>>
    /\ LET streaked == ComputeLimitupStreak(dataset.rows)
       IN  dataset' =
              [columns |-> dataset.columns \cup {"streak_up"},
               rows |-> [i \in Indices(dataset.rows) |->
                            [streak_up |-> streaked[i].streak_up]
                                @@ [dataset.rows[i] EXCEPT
                                       !.trade_date = streaked[i].trade_date]]]
    /\ pc' = "ex_streaked"
    /\ UNCHANGED <<strategy, frame, result, StreakVars, FillVars, LabelVars, prepared>>

\* strategy.generate_entries(daily_df) and strategy.generate_exits(daily_df).
ExGenerateSignals ==
    /\ pc = "ex_streaked"
    /\ frame' = [entry_signal |-> EntrySignal(strategy.name, dataset.rows, strategy.fill_model),
                 exit_signal |-> ExitSignal(strategy.name, dataset.rows, strategy.fill_model)]
    /\ pc' = "ex_done"
    /\ UNCHANGED <<dataset, strategy, result, StreakVars, FillVars, LabelVars, prepared>>

ExitsNext == ExAddRow \/ ExComputeLimitupStreak \/ ExGenerateSignals

SpecExits == ExitsInit /\ [][ExitsNext]_vars

(***************************************************************************)
(* limits.py: limit rules, limit price, applicability of the price limit.  *)
(* Rates are whole percents; a price is a whole number of units of         *)
(* 0.000001, so a cent is 10000 units.                                     *)
(***************************************************************************)
CentsToPrice(cents) == cents * 10000

\* DEFAULT_LIMIT_RULES, limit_up in percent.
DEFAULT_LIMIT_RULES ==
    [board \in {"MAIN", "ST", "STAR", "CHINEXT"} |->
        CASE board = "MAIN" -> [limit_up |-> 10, ipo_unlimited_days |-> 1]
          [] board = "ST" -> [limit_up |-> 5, ipo_unlimited_days |-> 1]
          [] OTHER -> [limit_up |-> 20, ipo_unlimited_days |-> 5]]

\* Sample rules_path arguments: None, for which the default path names no
\* file; a file that sets the MAIN board's limit_up to 0.20; a file with a
\* [bse] table of limit_up 0.30 and ipo_unlimited_days 3.
RulesPaths == {"None", "wide_main.toml", "bse.toml"}

\* _load_rules: the default rules when the file does not exist, else the
\* file's tables merged over them under the upper-cased board names.
LoadRules(rules_path) ==
    CASE rules_path = "None" -> DEFAULT_LIMIT_RULES
      [] rules_path = "wide_main.toml" ->
            [DEFAULT_LIMIT_RULES EXCEPT !["MAIN"].limit_up = 20]
      [] rules_path = "bse.toml" ->
            [board \in DOMAIN DEFAULT_LIMIT_RULES \cup {"BSE"} |->
                IF board = "BSE"
                THEN [limit_up |-> 30, ipo_unlimited_days |-> 3]
                ELSE DEFAULT_LIMIT_RULES[board]]

\* _as_bool of limits.py: unlike the one of fill_models.py it does not read
\* the text "nan" as false, so a NaN flag falls through to bool(value).
LimitsAsBool(value) ==
    IF value \in PyBools THEN value = "True"
    ELSE LET text == StripLower(value)
         IN  IF text \in {"1", "true", "t", "yes", "y"} THEN TRUE
             ELSE IF text \in {"0", "false", "f", "no", "n", ""} THEN FALSE
             ELSE PyTruth(value)

\* str(board).strip().upper() on the sample boards: MAIN, star, " ChiNext ",
\* BSE and UNKNOWN.
StripUpper(board) ==
    CASE board = "star" -> "STAR"
      [] board = " ChiNext " -> "CHINEXT"
      [] OTHER -> board

\* The board's rule first, and ST only for a board without a rule.
PickLimitParamsBoardFirst(instrument_row, rules_path) ==
    LET limit_rules == LoadRules(rules_path)
        board_name == StripUpper(instrument_row.board)
    IN  IF board_name \in DOMAIN limit_rules
        THEN limit_rules[board_name]
        ELSE IF LimitsAsBool(instrument_row.is_st)
             THEN limit_rules["ST"]
             ELSE limit_rules["MAIN"]

\* pick_limit_params: the board's rule, ST for an ST instrument, MAIN for a
\* board without a rule.
PickLimitParams(instrument_row, rules_path) ==
    LET limit_rules == LoadRules(rules_path)
        board_name == StripUpper(instrument_row.board)
        is_st == LimitsAsBool(instrument_row.is_st)
        board_key == IF is_st THEN "ST" ELSE board_name
    IN  IF board_key \in DOMAIN limit_rules
        THEN limit_rules[board_key]
        ELSE limit_rules["MAIN"]

\* The product cut off after the second decimal.
ComputeLimitPriceTruncated(pre_close, up) ==
    CentsToPrice((pre_close * (100 + up)) \div 1000000)

\* compute_limit_price: pre_close * (1 + up), quantized to 0.01 with
\* ROUND_HALF_UP.
ComputeLimitPrice(pre_close, up) ==
    CentsToPrice(((pre_close * (100 + up)) + 500000) \div 1000000)

\* Applicable only from the day after the unlimited days have passed.
IsPriceLimitApplicableLater(instrument_row, trade_date, rules_path) ==
    IF instrument_row.list_date = <<>>
    THEN TRUE
    ELSE LET listing_age_days == trade_date - instrument_row.list_date[1]
         IN  listing_age_days >
                 PickLimitParams(instrument_row, rules_path).ipo_unlimited_days

\* is_price_limit_applicable: list_date is <<>> for None, <<date>> otherwise.
IsPriceLimitApplicable(instrument_row, trade_date, rules_path) ==
    IF instrument_row.list_date = <<>>
    THEN TRUE
    ELSE LET listing_age_days == trade_date - instrument_row.list_date[1]
         IN  listing_age_days >=
                 PickLimitParams(instrument_row, rules_path).ipo_unlimited_days

(***************************************************************************)
(* The functions of limits.py, called on sample arguments.                 *)
(***************************************************************************)
\* The listing ages, in days, that the sample trade dates reach.
MaxListingAge == 6

\* Sample instrument_row arguments: a board in any case and padding, is_st as
\* a bool, a text or NaN, list_date None or one of two listing days.
InstrumentRows ==
    [board : {"MAIN", "star", " ChiNext ", "BSE", "UNKNOWN"},
     is_st : PyFlagValues,
     list_date : {<<>>, <<20240101>>, <<20240102>>}]

LimitsInit ==
    /\ pc = "lm_idle"
    /\ limit_call = <<>>
    /\ labeled = <<>>
    /\ label_call = <<>>
    /\ StreakIdle
    /\ FillIdle
    /\ BacktestIdle
    /\ PreparedIdle

LmPickLimitParams ==
    /\ pc = "lm_idle"
    /\ \E instrument_row \in InstrumentRows, rules_path \in RulesPaths :
          limit_call' = [function |-> "pick_limit_params",
                         instrument_row |-> instrument_row,
                         rules_path |-> rules_path,
                         returned |-> PickLimitParams(instrument_row, rules_path)]
    /\ UNCHANGED <<pc, labeled, label_call, StreakVars, FillVars, BacktestVars, prepared>>

LmComputeLimitPrice ==
    /\ pc = "lm_idle"
    /\ \E pre_close \in {CentsToPrice(cents) : cents \in 1000..1020},
          up \in {DEFAULT_LIMIT_RULES[board].limit_up : board \in DOMAIN DEFAULT_LIMIT_RULES} :
          limit_call' = [function |-> "compute_limit_price",
                         pre_close |-> pre_close,
                         up |-> up,
                         returned |-> ComputeLimitPrice(pre_close, up)]
    /\ UNCHANGED <<pc, labeled, label_call, StreakVars, FillVars, BacktestVars, prepared>>

LmIsPriceLimitApplicable ==
    /\ pc = "lm_idle"
    /\ \E instrument_row \in InstrumentRows,
          trade_date \in 20240101 .. (20240101 + MaxListingAge),
          rules_path \in RulesPaths :
          limit_call' = [function |-> "is_price_limit_applicable",
                         instrument_row |-> instrument_row,
                         trade_date |-> trade_date,
                         rules_path |-> rules_path,
                         returned |-> IsPriceLimitApplicable(instrument_row, trade_date,
                                                             rules_path)]
    /\ UNCHANGED <<pc, labeled, label_call, StreakVars, FillVars, BacktestVars, prepared>>

LimitsNext == LmPickLimitParams \/ LmComputeLimitPrice \/ LmIsPriceLimitApplicable

SpecLimits == LimitsInit /\ [][LimitsNext]_vars

(***************************************************************************)
(* labels.py.  A table is [columns, rows]; a cell of a column the table    *)
(* does not have holds a placeholder that nothing reads.                   *)
(***************************************************************************)
\* DEFAULT_EPS = 1e-6, the unit of price.
DEFAULT_EPS == 1

\* A missing price cell.
NaN == 0 - 1

\* Sample instruments tables, by name.  "listed": AAA on the main board, BBB
\* listed on the main board on 2024-01-02.  "st": AAA under risk warning, BBB
\* not in the table.
InstrumentTables == {"listed", "st"}

\* _build_instrument_lookup
BuildInstrumentLookup(instruments_df) ==
    IF instruments_df = "listed"
    THEN [code \in {"AAA", "BBB"} |->
            IF code = "AAA"
            THEN [board |-> "MAIN", is_st |-> "False", list_date |-> <<>>]
            ELSE [board |-> "MAIN", is_st |-> "False", list_date |-> <<20240102>>]]
    ELSE [code \in {"AAA"} |-> [board |-> "MAIN", is_st |-> "True", list_date |-> <<>>]]

\* _get_instrument_row
GetInstrumentRow(instrument_lookup, ts_code) ==
    IF ts_code \in DOMAIN instrument_lookup
    THEN instrument_lookup[ts_code]
    ELSE [board |-> "UNKNOWN", is_st |-> "False", list_date |-> <<>>]

\* _is_close_to_limit: np.isclose with atol = eps and rtol = 0; NaN is close
\* to nothing.
IsCloseToLimit(value, limit_price, eps) ==
    value # NaN /\ Abs(value - limit_price) <= eps

\* table[column] = values, a value per row.
SetColumn(table, column, values) ==
    [columns |-> table.columns \cup {column},
     rows |-> [i \in DOMAIN table.rows |->
                  [table.rows[i] EXCEPT ![column] = values[i]]]]

\* A base of the limit price read from the table's own limit_up_price column.
LimitPriceBaseFromColumn(columns, row) ==
    IF "limit_up_price" \in columns THEN row.limit_up_price ELSE row.pre_close

\* The base of the limit price: row["pre_close"].
LimitPriceBase(columns, row) == row.pre_close

\* add_limit_prices
AddLimitPrices(bars_df, instruments_df, rules_path) ==
    LET instrument_lookup == BuildInstrumentLookup(instruments_df)
        calculate_limit_price(row) ==
            ComputeLimitPrice(
                LimitPriceBase(bars_df.columns, row),
                PickLimitParams(GetInstrumentRow(instrument_lookup, row.ts_code),
                                rules_path).limit_up)
    IN  SetColumn(bars_df, "limit_up_price",
                  [i \in DOMAIN bars_df.rows |-> calculate_limit_price(bars_df.rows[i])])

\* label_limit_up
LabelLimitUp(bars_df, instruments_df, eps, rules_path) ==
    LET instrument_lookup == BuildInstrumentLookup(instruments_df)
        applicable(row) ==
            IsPriceLimitApplicable(GetInstrumentRow(instrument_lookup, row.ts_code),
                                   NormalizeTradeDate(row.trade_date), rules_path)
        limit_up(row) ==
            /\ row.price_limit_applicable
            /\ IsCloseToLimit(row.close, row.limit_up_price, eps)
            /\ IsCloseToLimit(row.high, row.limit_up_price, eps)
        with_limit_prices == AddLimitPrices(bars_df, instruments_df, rules_path)
        with_applicable ==
            SetColumn(with_limit_prices, "price_limit_applicable",
                      [i \in DOMAIN with_limit_prices.rows |->
                          applicable(with_limit_prices.rows[i])])
    IN  SetColumn(with_applicable, "label_limit_up",
                  [i \in DOMAIN with_applicable.rows |-> limit_up(with_applicable.rows[i])])

\* label_one_word
LabelOneWord(bars_df, instruments_df, eps, rules_path) ==
    LET one_word(row) ==
            /\ row.label_limit_up
            /\ IsCloseToLimit(row.open, row.limit_up_price, eps)
            /\ IsCloseToLimit(row.high, row.limit_up_price, eps)
            /\ IsCloseToLimit(row.low, row.limit_up_price, eps)
            /\ IsCloseToLimit(row.close, row.limit_up_price, eps)
        output_daily == LabelLimitUp(bars_df, instruments_df, eps, rules_path)
    IN  SetColumn(output_daily, "label_one_word",
                  [i \in DOMAIN output_daily.rows |-> one_word(output_daily.rows[i])])

\* An opened label that does not ask for the high to be at the limit.
LabelOpenedBelowLimit(bars_df, instruments_df, eps, rules_path) ==
    LET opened(row) ==
            /\ row.price_limit_applicable
            /\ row.low # NaN
            /\ row.low < row.limit_up_price - eps
        output_daily == LabelLimitUp(bars_df, instruments_df, eps, rules_path)
    IN  SetColumn(output_daily, "label_opened",
                  [i \in DOMAIN output_daily.rows |-> opened(output_daily.rows[i])])

\* label_opened
LabelOpened(bars_df, instruments_df, eps, rules_path) ==
    LET opened(row) ==
            /\ row.price_limit_applicable
            /\ IsCloseToLimit(row.high, row.limit_up_price, eps)
            /\ row.low # NaN
            /\ row.low < row.limit_up_price - eps
        output_daily == LabelLimitUp(bars_df, instruments_df, eps, rules_path)
    IN  SetColumn(output_daily, "label_opened",
                  [i \in DOMAIN output_daily.rows |-> opened(output_daily.rows[i])])

\* A sealed label that does not look at label_opened.
SealedLabelIgnoringOpened(label_limit_up, label_opened) == label_limit_up

\* label_limit_up & ~label_opened
SealedLabel(label_limit_up, label_opened) == label_limit_up /\ ~ label_opened

\* label_sealed
LabelSealed(bars_df, instruments_df, eps, rules_path) ==
    LET sealed(row) == SealedLabel(row.label_limit_up, row.label_opened)
        output_daily == LabelOpened(bars_df, instruments_df, eps, rules_path)
    IN  SetColumn(output_daily, "label_sealed",
                  [i \in DOMAIN output_daily.rows |-> sealed(output_daily.rows[i])])

(***************************************************************************)
(* The labeler as a state machine: a bars table is built row by row, then  *)
(* the label functions are called on it in any order, each call on the     *)
(* table the previous call returned, with any of the sample settings of    *)
(* eps, instruments and rules.                                             *)
(***************************************************************************)
MaxLabelRows == 1

RawColumns == {"ts_code", "trade_date", "open", "high", "low", "close", "pre_close"}

LabelColumns == {"label_limit_up", "label_one_word", "label_opened", "label_sealed"}

\* Sample bars, in cents (pre_close, open, high, low, close); a low of NaN is
\* written 0 - 1.  With pre_close 10.00 the main-board limit is 11.00 and the
\* ST limit 10.50; with pre_close 10.05 the main-board limit is 11.06 (11.055
\* rounded half up).
BarSamples ==
    { <<1000, 1010, 1030, 1000, 1020>>,    \* no limit touched
      <<1000, 1100, 1100, 1100, 1100>>,    \* one price all day, at the limit
      <<1000, 1050, 1100, 1040, 1100>>,    \* closed at the limit after trading below
      <<1000, 1050, 1100, 1040, 1080>>,    \* touched the limit, closed below
      <<1000, 1090, 1100, 1100, 1100>>,    \* opened below, then at the limit
      <<1005, 1106, 1106, 1106, 1106>>,    \* one price at a rounded-up limit
      <<1000, 1050, 1050, 1050, 1050>> }   \* one price at the ST limit

\* Bars half a cent off the limit, within a widened eps only, in units of
\* 0.000001: all four prices, and the low alone.
NearLimitSamples ==
    { <<CentsToPrice(1000), 10995000, 10995000, 10995000, 10995000>>,
      <<CentsToPrice(1000), CentsToPrice(1100), CentsToPrice(1100), 10995000,
        CentsToPrice(1100)>>,
      <<CentsToPrice(1000), CentsToPrice(1100), CentsToPrice(1100), NaN,
        CentsToPrice(1100)>> }

PriceSamples ==
    { [k \in 1..5 |-> CentsToPrice(sample[k])] : sample \in BarSamples }
        \cup NearLimitSamples

LabelRow(code, date, sample) ==
    [ts_code |-> code, trade_date |-> date,
     pre_close |-> sample[1], open |-> sample[2], high |-> sample[3],
     low |-> sample[4], close |-> sample[5],
     limit_up_price |-> 0, price_limit_applicable |-> FALSE,
     label_limit_up |-> FALSE, label_one_word |-> FALSE,
     label_opened |-> FALSE, label_sealed |-> FALSE]

\* Every sample for AAA on the first day; for BBB the one-price bar at the
\* main-board limit, on its listing day and on the day after.
LabelRows ==
    { LabelRow("AAA", [ymd |-> 20240102, dashed |-> FALSE], sample)
        : sample \in PriceSamples }
    \cup
    { LabelRow("BBB", date,
               [k \in 1..5 |-> CentsToPrice(<<1000, 1100, 1100, 1100, 1100>>[k])])
        : date \in BarTradeDates }

\* Sample (instruments_df, eps, rules_path) arguments: the defaults, and each
\* argument changed alone (eps widened to one cent).
LabelSettings ==
    { [instruments_df |-> "listed", eps |-> DEFAULT_EPS, rules_path |-> "None"],
      [instruments_df |-> "listed", eps |-> CentsToPrice(1), rules_path |-> "None"],
      [instruments_df |-> "st", eps |-> DEFAULT_EPS, rules_path |-> "None"],
      [instruments_df |-> "listed", eps |-> DEFAULT_EPS, rules_path |-> "wide_main.toml"] }

\* label_call before any call.
NoLabelCall ==
    [fn |-> "none", setting |-> CHOOSE setting \in LabelSettings : TRUE,
     repeated |-> FALSE, one_setting |-> TRUE, one_eps |-> TRUE]

LabelInit ==
    /\ pc = "lb_build"
    /\ labeled = [columns |-> RawColumns, rows |-> <<>>]
    /\ label_call = NoLabelCall
    /\ limit_call = <<>>
    /\ StreakIdle
    /\ FillIdle
    /\ BacktestIdle
    /\ PreparedIdle

LbAddRow ==
    /\ pc = "lb_build"
    /\ Len(labeled.rows) < MaxLabelRows
    /\ \E row \in LabelRows : labeled' = [labeled EXCEPT !.rows = Append(@, row)]
    /\ UNCHANGED <<pc, label_call, limit_call, StreakVars, FillVars, BacktestVars, prepared>>

\* A label function can be called on a table with rows, raw or labeled.
CanLabel == pc \in {"lb_build", "lb_labeled"} /\ labeled.rows # <<>>

\* The record of a call: whether it repeats the previous call, whether
\* every call so far had the same eps, instruments and rules, and whether
\* every call so far had the same eps.
LabelCallRecord(fn, setting) ==
    [fn |-> fn, setting |-> setting,
     repeated |-> label_call.fn = fn /\ label_call.setting = setting,
     one_setting |-> label_call.fn = "none"
                       \/ (label_call.one_setting /\ label_call.setting = setting),
     one_eps |-> label_call.fn = "none"
                   \/ (label_call.one_eps /\ label_call.setting.eps = setting.eps)]

LbLabelLimitUp ==
    /\ CanLabel
    /\ \E setting \in LabelSettings :
          /\ labeled' = LabelLimitUp(labeled, setting.instruments_df, setting.eps,
                                     setting.rules_path)
          /\ label_call' = LabelCallRecord("label_limit_up", setting)
    /\ pc' = "lb_labeled"
    /\ UNCHANGED <<limit_call, StreakVars, FillVars, BacktestVars, prepared>>

LbLabelOneWord ==
    /\ CanLabel
    /\ \E setting \in LabelSettings :
          /\ labeled' = LabelOneWord(labeled, setting.instruments_df, setting.eps,
                                     setting.rules_path)
          /\ label_call' = LabelCallRecord("label_one_word", setting)
    /\ pc' = "lb_labeled"
    /\ UNCHANGED <<limit_call, StreakVars, FillVars, BacktestVars, prepared>>

LbLabelOpened ==
    /\ CanLabel
    /\ \E setting \in LabelSettings :
          /\ labeled' = LabelOpened(labeled, setting.instruments_df, setting.eps,
                                    setting.rules_path)
          /\ label_call' = LabelCallRecord("label_opened", setting)
    /\ pc' = "lb_labeled"
    /\ UNCHANGED <<limit_call, StreakVars, FillVars, BacktestVars, prepared>>

LbLabelSealed ==
    /\ CanLabel
    /\ \E setting \in LabelSettings :
          /\ labeled' = LabelSealed(labeled, setting.instruments_df, setting.eps,
                                    setting.rules_path)
          /\ label_call' = LabelCallRecord("label_sealed", setting)
    /\ pc' = "lb_labeled"
    /\ UNCHANGED <<limit_call, StreakVars, FillVars, BacktestVars, prepared>>

LabelNext == LbAddRow \/ LbLabelLimitUp \/ LbLabelOneWord \/ LbLabelOpened \/ LbLabelSealed

SpecLabel == LabelInit /\ [][LabelNext]_vars

(***************************************************************************)
(* returns.py.  A forward return is <<>> for NaN and <<q>> for the         *)
(* rational q; a price cell is a whole number or NaN.                      *)
(***************************************************************************)
\* _compute_forward_return mutated: an undefined return is filled with 0.
ComputeForwardReturnZeroFilled(next_price, current_close) ==
    IF current_close # NaN /\ next_price # NaN /\ current_close # 0
    THEN <<FracSub(Frac(next_price, current_close), FracOne)>>
    ELSE <<FracOfInt(0)>>

\* _compute_forward_return: next_price / current_close - 1 where both are
\* numbers and the close is not zero, NaN elsewhere.
ComputeForwardReturn(next_price, current_close) ==
    IF current_close # NaN /\ next_price # NaN /\ current_close # 0
    THEN <<FracSub(Frac(next_price, current_close), FracOne)>>
    ELSE <<>>

\* The sort keys of add_next_day_returns: ts_code and the parsed trade_date.
ReturnsSortKeys(bars_df) ==
    [i \in Indices(bars_df) |->
        [ts_code |-> bars_df[i].ts_code,
         trade_date |-> NormalizeTradeDate(bars_df[i].trade_date)]]

\* sorted_daily mutated: the rows are left in input order.
ReturnsOrderUnsorted(keys) == [k \in Indices(keys) |-> k]

\* sort_values(["ts_code", "_trade_sort_key", "_original_index"]): the row
\* labels in sorted order.
ReturnsOrder(keys) ==
    [k \in Indices(keys) |->
        CHOOSE i \in Indices(keys) :
            Cardinality({j \in Indices(keys) : StreakSortBefore(keys, j, i)}) = k - 1]

\* The shift mutated: the cell of the row itself.
ShiftedPriceUnshifted(bars_df, order, k, column) == bars_df[order[k]][column]

\* groupby("ts_code")[column].shift(-1) at sorted position k: the cell of the
\* following row in sorted order when it is of the same stock, NaN otherwise.
ShiftedPrice(bars_df, order, k, column) ==
    IF k < Len(order) /\ bars_df[order[k + 1]].ts_code = bars_df[order[k]].ts_code
    THEN bars_df[order[k + 1]][column]
    ELSE NaN

\* add_next_day_returns: the input rows in input order with the two returns.
AddNextDayReturns(bars_df) ==
    LET order == ReturnsOrder(ReturnsSortKeys(bars_df))
        position(i) == CHOOSE k \in Indices(order) : order[k] = i
    IN  [i \in Indices(bars_df) |->
            [ts_code |-> bars_df[i].ts_code,
             trade_date |-> bars_df[i].trade_date,
             open |-> bars_df[i].open,
             close |-> bars_df[i].close,
             next_open_ret |->
                 ComputeForwardReturn(ShiftedPrice(bars_df, order, position(i), "open"),
                                      bars_df[i].close),
             next_close_ret |->
                 ComputeForwardReturn(ShiftedPrice(bars_df, order, position(i), "close"),
                                      bars_df[i].close)]]

(***************************************************************************)
(* add_next_day_returns as a state machine: a bars table is built row by   *)
(* row, in any order, then the returns are added.                          *)
(***************************************************************************)
MaxReturnRows == 3

\* Sample (open, close) cells: plain prices, a zero close, a missing open and
\* a missing close.
ReturnPrices ==
    { <<11, 10>>, <<10, 0>>, <<NaN, 11>>, <<11, NaN>> }

\* Two days, the second also in the dashed form.
ReturnTradeDates == {d \in RawTradeDates : d.ymd <= 20240103}

ReturnRows ==
    { [ts_code |-> code, trade_date |-> date, open |-> price[1], close |-> price[2]]
      : code \in Codes, date \in ReturnTradeDates, price \in ReturnPrices }

ReturnsInit ==
    /\ pc = "rt_build"
    /\ daily_df = <<>>
    /\ prepared = <<>>
    /\ streak_out = <<>>
    /\ FillIdle
    /\ BacktestIdle
    /\ LabelIdle

RtAddRow ==
    /\ pc = "rt_build"
    /\ Len(daily_df) < MaxReturnRows
    /\ \E row \in ReturnRows : daily_df' = Append(daily_df, row)
    /\ UNCHANGED <<pc, prepared, streak_out, FillVars, BacktestVars, LabelVars>>

RtAddNextDayReturns ==
    /\ pc = "rt_build"
    /\ daily_df # <<>>
    /\ prepared' = AddNextDayReturns(daily_df)
    /\ pc' = "rt_done"
    /\ UNCHANGED <<daily_df, streak_out, FillVars, BacktestVars, LabelVars>>

ReturnsNext == RtAddRow \/ RtAddNextDayReturns

SpecReturns == ReturnsInit /\ [][ReturnsNext]_vars

(***************************************************************************)
(* streaks.py: the filters exclude_unlimited_days and exclude_suspended,   *)
(* on tables [columns, rows].                                              *)
(***************************************************************************)
\* A cell of _normalize_trade_date_series: strftime("%Y%m%d") of the parsed
\* date, the compact form of the same day.
CompactTradeDate(raw) == [ymd |-> NormalizeTradeDate(raw), dashed |-> FALSE]

\* A trade_date cell that pd.to_datetime cannot parse (coerced to NaT).
UnparseableTradeDate == [ymd |-> 0, dashed |-> FALSE]

\* _normalize_trade_date_series raises ValueError when some cell of the
\* column does not parse.
TradeDatesRaise(rows) ==
    \E i \in DOMAIN rows : rows[i].trade_date = UnparseableTradeDate

\* exclude_unlimited_days mutated: of the rows sharing an (instrument, date)
\* key only the first can be kept.
ExcludeUnlimitedDaysFirstOfKey(bars_df, instruments_df, rules_path) ==
    LET lookup == BuildInstrumentLookup(instruments_df)
        first_of_key(i) ==
            \A j \in 1..(i - 1) :
                \/ bars_df.rows[j].ts_code # bars_df.rows[i].ts_code
                \/ NormalizeTradeDate(bars_df.rows[j].trade_date)
                       # NormalizeTradeDate(bars_df.rows[i].trade_date)
        applicable(row) ==
            IF "price_limit_applicable" \in bars_df.columns
            THEN row.price_limit_applicable
            ELSE IsPriceLimitApplicable(GetInstrumentRow(lookup, row.ts_code),
                                        NormalizeTradeDate(row.trade_date), rules_path)
        kept == SelectSeq([i \in DOMAIN bars_df.rows |-> i],
                          LAMBDA i : first_of_key(i) /\ applicable(bars_df.rows[i]))
    IN  [columns |-> bars_df.columns,
         rows |-> [k \in DOMAIN kept |->
                      [bars_df.rows[kept[k]] EXCEPT !.trade_date = CompactTradeDate(@)]]]

\* exclude_unlimited_days, when it returns: trade_date is rewritten in the
\* compact form; the mask is the table's price_limit_applicable column when it has one, else
\* is_price_limit_applicable per row.
ExcludeUnlimitedDays(bars_df, instruments_df, rules_path) ==
    LET filtered_daily ==
            SetColumn(bars_df, "trade_date",
                      [i \in DOMAIN bars_df.rows |->
                          CompactTradeDate(bars_df.rows[i].trade_date)])
        lookup == BuildInstrumentLookup(instruments_df)
        applicable(row) ==
            IF "price_limit_applicable" \in filtered_daily.columns
            THEN row.price_limit_applicable
            ELSE IsPriceLimitApplicable(GetInstrumentRow(lookup, row.ts_code),
                                        NormalizeTradeDate(row.trade_date), rules_path)
    IN  [columns |-> filtered_daily.columns,
         rows |-> SelectSeq(filtered_daily.rows, LAMBDA row : applicable(row))]

\* pd.to_numeric(vol, errors="coerce").fillna(0.0)
TradedVolume(vol) == IF vol = NaN THEN 0 ELSE vol

\* A filter that keeps the rows of zero volume.
ExcludeSuspendedKeepsZero(bars_df) ==
    [columns |-> bars_df.columns,
     rows |-> SelectSeq(bars_df.rows, LAMBDA row : TradedVolume(row.vol) >= 0)]

\* exclude_suspended
ExcludeSuspended(bars_df) ==
    [columns |-> bars_df.columns,
     rows |-> SelectSeq(bars_df.rows, LAMBDA row : TradedVolume(row.vol) > 0)]

(***************************************************************************)
(* The filters as a state machine: a table is built row by row, with or    *)
(* without a price_limit_applicable column, one filter is applied, and     *)
(* the other may be applied to the table the first returned.               *)
(***************************************************************************)
MaxFilterRows == 2

\* The rows of a table with the given columns: the trade_date parses or
\* does not; vol is missing, zero (suspended) or traded; a
\* price_limit_applicable cell of a table without the column is a placeholder.
FilterRows(columns) ==
    { [ts_code |-> code, trade_date |-> date, vol |-> vol,
       price_limit_applicable |-> applicable]
      : code \in Codes, date \in RawTradeDates \cup {UnparseableTradeDate},
        vol \in {NaN, 0, 100},
        applicable \in IF "price_limit_applicable" \in columns
                       THEN BOOLEAN ELSE {FALSE} }

FilterInit ==
    /\ pc = "ft_build"
    /\ \E columns \in {{"ts_code", "trade_date", "vol"},
                       {"ts_code", "trade_date", "vol", "price_limit_applicable"}} :
          daily_df = [columns |-> columns, rows |-> <<>>]
    /\ prepared = <<>>
    /\ streak_out = <<>>
    /\ FillIdle
    /\ BacktestIdle
    /\ LabelIdle

FtAddRow ==
    /\ pc = "ft_build"
    /\ Len(daily_df.rows) < MaxFilterRows
    /\ \E row \in FilterRows(daily_df.columns) :
          daily_df' = [daily_df EXCEPT !.rows = Append(@, row)]
    /\ UNCHANGED <<pc, prepared, streak_out, FillVars, BacktestVars, LabelVars>>

FtExcludeUnlimitedDays ==
    /\ pc = "ft_build"
    /\ daily_df.rows # <<>>
    /\ \E instruments_df \in InstrumentTables :
          /\ frame' = [fn |-> "exclude_unlimited_days", instruments_df |-> instruments_df,
                       raised |-> IF TradeDatesRaise(daily_df.rows)
                                  THEN "ValueError" ELSE ""]
          /\ prepared' = IF TradeDatesRaise(daily_df.rows)
                         THEN prepared
                         ELSE ExcludeUnlimitedDays(daily_df, instruments_df, "None")
    /\ pc' = "ft_done"
    /\ UNCHANGED <<daily_df, streak_out, dataset, strategy, result, FillVars, LabelVars>>

FtExcludeSuspended ==
    /\ pc = "ft_build"
    /\ daily_df.rows # <<>>
    /\ frame' = [fn |-> "exclude_suspended", instruments_df |-> "None", raised |-> ""]
    /\ prepared' = ExcludeSuspended(daily_df)
    /\ pc' = "ft_done"
    /\ UNCHANGED <<daily_df, streak_out, dataset, strategy, result, FillVars, LabelVars>>

\* exclude_suspended(filtered_unlimited), as test_exclude_filters chains them.
FtThenExcludeSuspended ==
    /\ pc = "ft_done"
    /\ frame.fn = "exclude_unlimited_days"
    /\ frame.raised = ""
    /\ frame' = [frame EXCEPT !.fn = "exclude_suspended"]
    /\ prepared' = ExcludeSuspended(prepared)
    /\ pc' = "ft_chained"
    /\ UNCHANGED <<daily_df, streak_out, dataset, strategy, result, FillVars, LabelVars>>

\* exclude_unlimited_days(filtered_active, instruments_df): the other order.
FtThenExcludeUnlimitedDays ==
    /\ pc = "ft_done"
    /\ frame.fn = "exclude_suspended"
    /\ \E instruments_df \in InstrumentTables :
          /\ frame' = [fn |-> "exclude_unlimited_days", instruments_df |-> instruments_df,
                       raised |-> IF TradeDatesRaise(prepared.rows)
                                  THEN "ValueError" ELSE ""]
          /\ prepared' = IF TradeDatesRaise(prepared.rows)
                         THEN prepared
                         ELSE ExcludeUnlimitedDays(prepared, instruments_df, "None")
    /\ pc' = "ft_chained"
    /\ UNCHANGED <<daily_df, streak_out, dataset, strategy, result, FillVars, LabelVars>>

FilterNext ==
    \/ FtAddRow
    \/ FtExcludeUnlimitedDays
    \/ FtExcludeSuspended
    \/ FtThenExcludeSuspended
    \/ FtThenExcludeUnlimitedDays

SpecFilter == FilterInit /\ [][FilterNext]_vars

(***************************************************************************)
(* report.py: _prepare_dataset, the dataset the backtest is run on.        *)
(***************************************************************************)
\* _prepare_dataset: the bars labeled with the default eps and rules, the two
\* filters, the streak and the returns of the rows that are left, the board
\* and is_st tags merged on ts_code (NaN for a stock that is not in the
\* instruments table) and the aliases.
PrepareDataset(daily_bars, instruments) ==
    LET lookup == BuildInstrumentLookup(instruments)
        instrument_tags(ts_code) ==
            IF ts_code \in DOMAIN lookup
            THEN [board |-> lookup[ts_code].board, is_st |-> lookup[ts_code].is_st]
            ELSE [board |-> "nan", is_st |-> "nan"]
        merged_dataset(filtered_daily) ==
            LET with_streak == ComputeLimitupStreak(filtered_daily)
                with_returns == AddNextDayReturns(filtered_daily)
            IN  [i \in Indices(filtered_daily) |->
                    LET row == filtered_daily[i]
                        tags == instrument_tags(row.ts_code)
                        returns == with_returns[i]
                    IN  [streak_up |-> with_streak[i].streak_up,
                         next_open_ret |-> returns.next_open_ret,
                         next_close_ret |-> returns.next_close_ret,
                         board |-> tags.board,
                         is_st |-> tags.is_st,
                         one_word |-> row.label_one_word,
                         opened |-> row.label_opened] @@ row]
        with_one_word == LabelOneWord(daily_bars, instruments, DEFAULT_EPS, "None")
        labeled_daily == LabelSealed(with_one_word, instruments, DEFAULT_EPS, "None")
    IN  merged_dataset(
            ExcludeSuspended(ExcludeUnlimitedDays(labeled_daily, instruments, "None")).rows)

(***************************************************************************)
(* _prepare_dataset as a state machine: the daily bars are built row by    *)
(* row, in ascending (trade_date, ts_code) order with one row per stock    *)
(* and day, then the dataset is prepared.                                  *)
(***************************************************************************)
MaxDailyRows == 4

\* Sample rows: bars in cents (pre_close, open, high, low, close) off the
\* limit, at the limit all day, and at the limit at the close after trading
\* below, on three consecutive days; a volume of zero is a suspension.
DailyRows ==
    { LabelRow(code, [ymd |-> ymd, dashed |-> FALSE],
               [k \in 1..5 |-> CentsToPrice(sample[k])]) @@ [vol |-> vol]
      : code \in Codes, ymd \in 20240102..20240104,
        sample \in { <<1000, 1010, 1030, 1000, 1020>>,
                     <<1000, 1100, 1100, 1100, 1100>>,
                     <<1000, 1050, 1100, 1040, 1100>> },
        vol \in {0, 100} }

PrepareInit ==
    /\ pc = "pp_build"
    /\ daily_df = [columns |-> RawColumns \cup {"vol"}, rows |-> <<>>]
    /\ prepared = <<>>
    /\ streak_out = <<>>
    /\ FillIdle
    /\ BacktestIdle
    /\ LabelIdle

PpAddRow ==
    /\ pc = "pp_build"
    /\ Len(daily_df.rows) < MaxDailyRows
    /\ \E row \in DailyRows :
          /\ daily_df.rows # <<>> =>
                LET last == daily_df.rows[Len(daily_df.rows)]
                IN  \/ last.trade_date.ymd < row.trade_date.ymd
                    \/ /\ last.trade_date.ymd = row.trade_date.ymd
                       /\ CodeRank(last.ts_code) < CodeRank(row.ts_code)
          /\ daily_df' = [daily_df EXCEPT !.rows = Append(@, row)]
    /\ UNCHANGED <<pc, prepared, streak_out, FillVars, BacktestVars, LabelVars>>

PpPrepareDataset ==
    /\ pc = "pp_build"
    /\ daily_df.rows # <<>>
    /\ \E instruments \in InstrumentTables :
          /\ frame' = [fn |-> "_prepare_dataset", instruments_df |-> instruments]
          /\ prepared' = PrepareDataset(daily_df, instruments)
    /\ pc' = "pp_done"
    /\ UNCHANGED <<daily_df, streak_out, dataset, strategy, result, FillVars, LabelVars>>

PrepareNext == PpAddRow \/ PpPrepareDataset

SpecPrepare == PrepareInit /\ [][PrepareNext]_vars

(***************************************************************************)
(* Claims about the streak tracker (checked under SpecStreak).             *)
(***************************************************************************)
\* Row j precedes row i in the instrument's ascending date order (rows of one
\* date in input order).
EarlierRow(t, j, i) ==
    /\ t[j].ts_code = t[i].ts_code
    /\ \/ t[j].trade_date < t[i].trade_date
       \/ t[j].trade_date = t[i].trade_date /\ j < i

PreviousRows(t, i) == {j \in DOMAIN t : EarlierRow(t, j, i)}

\* The instrument's previous row: the latest of the rows that precede row i.
PreviousRow(t, i) ==
    CHOOSE j \in PreviousRows(t, i) :
        \A h \in PreviousRows(t, i) : h = j \/ EarlierRow(t, h, j)

\* d1 is the entry of the market calendar immediately before d2.
CalendarAdjacent(t, d1, d2) ==
    /\ d1 < d2
    /\ ~ \E h \in DOMAIN t : d1 < t[h].trade_date /\ t[h].trade_date < d2

StreakRecurrenceAt(t, i) ==
    IF ~ t[i].label_limit_up THEN t[i].streak_up = 0
    ELSE IF PreviousRows(t, i) = {} THEN t[i].streak_up = 1
    ELSE LET p == PreviousRow(t, i)
         IN  IF t[p].label_limit_up
                /\ CalendarAdjacent(t, t[p].trade_date, t[i].trade_date)
             THEN t[i].streak_up = t[p].streak_up + 1
             ELSE t[i].streak_up = 1

\* C1: after compute_limitup_streak every row satisfies the streak recurrence:
\* 0 when the row is not limit-up; otherwise 1 plus the streak of the
\* instrument's previous row when that row is limit-up and lies on the
\* immediately preceding market-calendar date, and 1 in every other case.
C1_StreakRecurrence ==
    pc = "streaked" =>
        \A i \in DOMAIN streak_out : StreakRecurrenceAt(streak_out, i)

\* A streak was continued and, in the same table, a limit-up row restarted at 1
\* although the instrument had an earlier limit-up row.
C1_Witness ==
    /\ pc = "streaked"
    /\ \E i \in DOMAIN streak_out : streak_out[i].streak_up = 2
    /\ \E i \in DOMAIN streak_out :
          /\ streak_out[i].streak_up = 1
          /\ \E j \in PreviousRows(streak_out, i) : streak_out[j].label_limit_up

\* Instrument X is limit-up on D (row i) and D+2 (row j), has no row on D+1,
\* and another instrument has a row on D+1.
GapCase(t, i, j) ==
    /\ t[i].ts_code = t[j].ts_code
    /\ t[i].label_limit_up /\ t[j].label_limit_up
    /\ t[j].trade_date = t[i].trade_date + 2
    /\ ~ \E h \in DOMAIN t :
          t[h].ts_code = t[i].ts_code /\ t[h].trade_date = t[i].trade_date + 1
    /\ \E h \in DOMAIN t :
          t[h].ts_code # t[i].ts_code /\ t[h].trade_date = t[i].trade_date + 1

\* C2: gap property: X limit-up on D and D+2, no row of X on D+1, D+1 present
\* for another instrument: the streak of X on D+2 is 1, not streak(X, D) + 1.
C2_GapResetsStreak ==
    pc = "streaked" =>
        \A i, j \in DOMAIN streak_out :
            GapCase(streak_out, i, j) =>
                /\ streak_out[j].streak_up = 1
                /\ streak_out[j].streak_up # streak_out[i].streak_up + 1

C2_Witness ==
    /\ pc = "streaked"
    /\ \E i, j \in DOMAIN streak_out : GapCase(streak_out, i, j)

\* The permutations of the rows of df.
RowPermutations(df) == Permutations(Indices(df))

\* The table whose k-th row is row q[k] of df.
Permuted(df, q) == [k \in Indices(df) |-> df[q[k]]]

RowKeyLeq(r1, r2) ==
    \/ CodeRank(r1.ts_code) < CodeRank(r2.ts_code)
    \/ /\ r1.ts_code = r2.ts_code
       /\ NormalizeTradeDate(r1.trade_date) <= NormalizeTradeDate(r2.trade_date)

\* df is sorted by (instrument, date).
SortedByKey(df) == \A a, b \in Indices(df) : a < b => RowKeyLeq(df[a], df[b])

UniqueKeys(df) ==
    \A a, b \in Indices(df) :
        (/\ df[a].ts_code = df[b].ts_code
         /\ NormalizeTradeDate(df[a].trade_date) = NormalizeTradeDate(df[b].trade_date))
        => a = b

\* Every row of the table as given has the streak it gets in every arrangement
\* of the same rows that is sorted by (instrument, date).
StreakSameAsSorted ==
    \A q \in RowPermutations(daily_df) :
        \A sorted_df \in {Permuted(daily_df, q)} :
            SortedByKey(sorted_df) =>
                \A sorted_out \in {ComputeLimitupStreak(sorted_df)} :
                    \A k \in Indices(daily_df) :
                        sorted_out[k].streak_up = streak_out[q[k]].streak_up

\* C3 as stated: for any input table, in any row order, every row gets the
\* streak it gets when the table is given sorted by (instrument, date).
C3_OrderIndependentAnyTable == pc = "streaked" => StreakSameAsSorted

\* C3 amended: the same, for tables in which (instrument, date) is a key.
C3_OrderIndependentUniqueKeys ==
    (pc = "streaked" /\ UniqueKeys(daily_df)) => StreakSameAsSorted

\* An unsorted table with unique keys in which a streak is continued.
C3_Witness ==
    /\ pc = "streaked"
    /\ UniqueKeys(daily_df)
    /\ ~ SortedByKey(daily_df)
    /\ \E i \in DOMAIN streak_out : streak_out[i].streak_up = 2

(***************************************************************************)
(* Claims about the fill model (checked under SpecFill).                   *)
(***************************************************************************)
\* The truth value a flag cell stands for, where it has one: the bools and the
\* texts yes / 0; the empty cell (NaN) stands for false.
FlagMeaning(value) == value \in {"True", "' Yes '"}
HasFlagMeaning(value) == value \in {"True", "False", "' Yes '", "'0'", "nan"}

\* The flag of a row: its label column, else the alias column, else false.
RowFlag(row, primary_key, alias_key) ==
    IF row[primary_key] # Missing THEN FlagMeaning(row[primary_key])
    ELSE row[alias_key] # Missing /\ FlagMeaning(row[alias_key])

RowIsPlain(row) ==
    \A key \in LabelKeys \cup AliasKeys : row[key] = Missing \/ HasFlagMeaning(row[key])

\* C4: a row that is not limit-up is never buyable under either fill model; a
\* limit-up row is always buyable under IDEAL; under CONSERVATIVE it is buyable
\* exactly when it is neither sealed nor one-word.
C4_CanBuyLimitupDay ==
    (/\ pc = "called"
     /\ RowIsPlain(can_buy_call.row)
     /\ NormalizeModel(can_buy_call.model) # "ValueError") =>
        LET row == can_buy_call.row
            limit_up == RowFlag(row, "label_limit_up", "is_limit_up")
            sealed == RowFlag(row, "label_sealed", "sealed")
            one_word == RowFlag(row, "label_one_word", "one_word")
            ideal == can_buy_call.model \in {"FillModel.IDEAL", "' ideal'"}
            buyable == can_buy_call.returned = "True"
        IN  /\ can_buy_call.returned \in {"True", "False"}
            /\ ~ limit_up => ~ buyable
            /\ (limit_up /\ ideal) => buyable
            /\ (limit_up /\ ~ ideal) => (buyable <=> (~ sealed /\ ~ one_word))

\* The fill models diverge: a limit-up, one-word, unsealed row was refused under
\* CONSERVATIVE.
C4_Witness ==
    /\ pc = "called"
    /\ can_buy_call.model = "FillModel.CONSERVATIVE"
    /\ can_buy_call.row["label_limit_up"] = "True"
    /\ can_buy_call.row["label_sealed"] = "False"
    /\ can_buy_call.row["label_one_word"] = "True"
    /\ can_buy_call.returned = "False"

(***************************************************************************)
(* Claims about the backtest simulator (checked under SpecBacktest).       *)
(***************************************************************************)
\* The signals a strategy of this class generates when its fill_model
\* attribute is the member named fill_model.
SignalsUnder(name, rows, fill_model) ==
    [entry |-> EntrySignal(name, rows, FillModelMember(fill_model)),
     exit |-> ExitSignal(name, rows, FillModelMember(fill_model))]

\* C5: run_backtest with fill model M on a strategy that has a fill_model
\* attribute generates the entry and exit signals with the attribute set to M,
\* and when signal generation has ended, normally or by an exception, the
\* attribute holds the value it had before the call.
C5_FillModelSubstitutedAndRestored ==
    /\ pc \in {"bt_try", "bt_finally"} =>
          strategy.fill_model = FillModelMember(frame.fill_model)
    /\ (pc = "bt_finally" /\ frame.raised = "") =>
          LET signals == SignalsUnder(strategy.name, WorkingDaily(dataset.rows),
                                      frame.fill_model)
          IN  frame.entry_signal = signals.entry /\ frame.exit_signal = signals.exit
    /\ pc \in {"bt_trades", "bt_done", "bt_raised"} =>
          strategy.fill_model = frame.original_fill_model

\* Signal generation ended by an exception, and the attribute, substituted by
\* another model during the call, is back at its value.
C5_Witness ==
    /\ pc = "bt_raised"
    /\ frame.raised = "ValueError"
    /\ frame.fill_model = "CONSERVATIVE"
    /\ strategy.fill_model = "FillModel.IDEAL"

\* The result of run_backtest on a freshly constructed strategy of the class:
\* a function of the bars, the class, the fill model argument and the costs.
FreshRun(name, rows, fill_model, total_cost_bps) ==
    LET signals == SignalsUnder(name, rows, fill_model)
    IN  BuildResult(name, fill_model, rows, signals.entry, signals.exit, total_cost_bps)

\* C6: the trades and the equity curve returned for fill model M depend neither
\* on the fill model the instance was constructed with nor on earlier
\* run_backtest calls on it: they are those of a run on a fresh strategy.
C6_RunsIndependent ==
    pc = "bt_done" =>
        result = FreshRun(strategy.name, WorkingDaily(dataset.rows), frame.fill_model,
                          frame.fee_bps + frame.slippage_bps)

\* A CONSERVATIVE run on an instance constructed with IDEAL and run before
\* returns no trade, where an IDEAL run returns one.
C6_Witness ==
    /\ pc = "bt_done"
    /\ strategy.runs = 2
    /\ strategy.fill_model = "FillModel.IDEAL"
    /\ frame.fill_model = "CONSERVATIVE"
    /\ result.trades = <<>>
    /\ FreshRun(strategy.name, WorkingDaily(dataset.rows), "IDEAL", 0).trades # <<>>

\* The rational q equals n / d.
FracIs(q, n, d) == q.num * d = n * q.den

\* The trade t has the prices and the return of the claim for an entry close and
\* an exit base price.
TradePricedFrom(t, entry_close, exit_base, total_cost_bps) ==
    /\ FracIs(t.entry_price, entry_close * (10000 + total_cost_bps), 10000)
    /\ FracIs(t.exit_price, exit_base * (10000 - total_cost_bps), 10000)
    /\ FracIs(t.ret_net,
              t.exit_price.num * t.entry_price.den - t.entry_price.num * t.exit_price.den,
              t.entry_price.num * t.exit_price.den)

\* C9: every trade has entry_price = C_entry * (1 + (fee_bps + slippage_bps)/10000),
\* exit_price = P_exit * (1 - (fee_bps + slippage_bps)/10000) and
\* net_return = exit_price / entry_price - 1, with C_entry the close of the entry
\* row and P_exit the exit day's open when exit_price_type is next_open and the
\* exit day's close otherwise.
C9_TradePrices ==
    pc = "bt_done" =>
        \A k \in DOMAIN result.trades :
            LET t == result.trades[k]
                rows == WorkingDaily(dataset.rows)
            IN  \E i, j \in DOMAIN rows :
                    /\ rows[i].ts_code = t.ts_code /\ rows[i].trade_date = t.entry_date
                    /\ frame.entry_signal[i]
                    /\ rows[j].ts_code = t.ts_code /\ rows[j].trade_date = t.exit_date
                    /\ TradePricedFrom(t, rows[i].close,
                          IF ExitPriceType(strategy.name) = "next_open"
                          THEN rows[j].open ELSE rows[j].close,
                          frame.fee_bps + frame.slippage_bps)

\* A trade with costs that exits at the open of a day whose open and close differ.
C9_Witness ==
    /\ pc = "bt_done"
    /\ strategy.name = BuyNonOneWord
    /\ frame.fee_bps + frame.slippage_bps > 0
    /\ \E k \in DOMAIN result.trades :
          \E j \in DOMAIN dataset.rows :
              /\ dataset.rows[j].ts_code = result.trades[k].ts_code
              /\ NormalizeTradeDate(dataset.rows[j].trade_date) = result.trades[k].exit_date
              /\ dataset.rows[j].open # dataset.rows[j].close

TradeKey(t) == <<t.ts_code, t.entry_date, t.exit_date>>

FinalEquity(run) == run.equity_curve[Len(run.equity_curve)].equity

\* C10: with positive prices, a run with fee_bps + slippage_bps > 0 produces the
\* same trades as the zero-cost run, each with a strictly lower net_return, and
\* with at least one trade a strictly lower final equity.
C10_CostsReduceReturns ==
    (pc = "bt_done" /\ frame.fee_bps + frame.slippage_bps > 0) =>
        LET free == FreshRun(strategy.name, WorkingDaily(dataset.rows),
                             frame.fill_model, 0)
        IN  /\ Len(result.trades) = Len(free.trades)
            /\ \A k \in DOMAIN result.trades :
                  /\ TradeKey(result.trades[k]) = TradeKey(free.trades[k])
                  /\ FracLess(result.trades[k].ret_net, free.trades[k].ret_net)
            /\ result.trades # <<>> =>
                  FracLess(FinalEquity(result), FinalEquity(free))

\* A run with costs in which a trade that wins at zero cost loses.
C10_Witness ==
    /\ pc = "bt_done"
    /\ frame.fee_bps + frame.slippage_bps > 0
    /\ result.trades # <<>>
    /\ FracLess(result.trades[1].ret_net, FracOfInt(0))
    /\ FracLess(FracOfInt(0),
                FreshRun(strategy.name, WorkingDaily(dataset.rows),
                         frame.fill_model, 0).trades[1].ret_net)

(***************************************************************************)
(* Claims about the labeler (SpecLabel).                                   *)
(***************************************************************************)
\* The table has been labeled and carries all four label columns.
FullyLabeled == pc = "lb_labeled" /\ LabelColumns \subseteq labeled.columns

LabelImplications(row) ==
    /\ row.label_one_word => row.label_limit_up
    /\ row.label_limit_up => ~ (row.label_opened /\ row.label_sealed)
    /\ row.label_limit_up => (row.label_sealed # row.label_opened)

\* C7 as stated: on every bar of a table carrying the four labels, whatever
\* label calls produced them, label_one_word implies label_limit_up,
\* label_limit_up excludes label_opened and label_sealed both true, and with
\* label_limit_up exactly one of label_sealed and label_opened is true.
C7_LabelImplicationsAnyCalls ==
    FullyLabeled =>
        \A i \in Indices(labeled.rows) : LabelImplications(labeled.rows[i])

\* C7, amended: the implications hold on every bar whose labels were all
\* computed with one eps and the same instruments and rules.
C7_LabelImplicationsOneSetting ==
    (FullyLabeled /\ label_call.one_setting) =>
        \A i \in Indices(labeled.rows) : LabelImplications(labeled.rows[i])

\* A one-word bar labeled under one setting: limit-up, sealed, not opened.
C7_Witness ==
    /\ FullyLabeled
    /\ label_call.one_setting
    /\ \E i \in Indices(labeled.rows) :
          /\ labeled.rows[i].label_one_word
          /\ labeled.rows[i].label_limit_up
          /\ labeled.rows[i].label_sealed
          /\ ~ labeled.rows[i].label_opened

\* The five columns test_labels_are_idempotent compares.
IdempotentColumns(row) ==
    <<row.limit_up_price, row.price_limit_applicable, row.label_limit_up,
      row.label_opened, row.label_sealed>>

\* C8: label_sealed applied to a table it returned, with the arguments of
\* that call, returns the same limit_up_price, price_limit_applicable,
\* label_limit_up, label_opened and label_sealed on every row, whatever
\* label columns the first call's input already had.
C8_LabelSealedIdempotent ==
    (pc = "lb_labeled" /\ label_call.fn = "label_sealed") =>
        LET setting == label_call.setting
            second_pass == LabelSealed(labeled, setting.instruments_df, setting.eps,
                                       setting.rules_path)
        IN  /\ Len(second_pass.rows) = Len(labeled.rows)
            /\ \A i \in Indices(labeled.rows) :
                  IdempotentColumns(second_pass.rows[i])
                      = IdempotentColumns(labeled.rows[i])

\* label_sealed has been applied to its own output, on a sealed limit-up bar.
C8_Witness ==
    /\ pc = "lb_labeled"
    /\ label_call.fn = "label_sealed"
    /\ label_call.repeated
    /\ \E i \in Indices(labeled.rows) :
          labeled.rows[i].label_limit_up /\ labeled.rows[i].label_sealed

\* The table carries label_opened, and every label call so far had the same
\* eps, instruments and rules.
OpenedLabeled ==
    /\ pc = "lb_labeled"
    /\ "label_opened" \in labeled.columns
    /\ label_call.one_setting

\* C19 as stated: every bar labeled opened is a limit-up day, label_opened
\* implies label_limit_up.
C19_OpenedImpliesLimitUp ==
    OpenedLabeled =>
        \A i \in Indices(labeled.rows) :
            labeled.rows[i].label_opened => labeled.rows[i].label_limit_up

\* C19, amended: every bar labeled opened is price-limit applicable with its
\* high within eps of limit_up_price, and it is a limit-up day when its
\* close is within eps of limit_up_price too.
C19_OpenedTouchedLimit ==
    OpenedLabeled =>
        \A i \in Indices(labeled.rows) :
            LET row == labeled.rows[i]
                eps == label_call.setting.eps
            IN  row.label_opened =>
                    /\ row.price_limit_applicable
                    /\ IsCloseToLimit(row.high, row.limit_up_price, eps)
                    /\ IsCloseToLimit(row.close, row.limit_up_price, eps)
                            => row.label_limit_up

\* An opened bar that closed at the limit, and is limit-up.
C19_Witness ==
    /\ OpenedLabeled
    /\ \E i \in Indices(labeled.rows) :
          /\ labeled.rows[i].label_opened
          /\ labeled.rows[i].close = labeled.rows[i].limit_up_price
          /\ labeled.rows[i].label_limit_up
          /\ labeled.rows[i].low < labeled.rows[i].close

(***************************************************************************)
(* Claims about run_backtest with any strategy signals (SpecSignals).      *)
(***************************************************************************)
\* Row i has an entry signal whose exit is a date on which the instrument
\* has a bar.
HasResolvableExit(rows, i) ==
    /\ frame.entry_signal[i]
    /\ frame.exit_signal[i] # <<>>
    /\ \E j \in Indices(rows) :
          rows[j].ts_code = rows[i].ts_code /\ rows[j].trade_date = frame.exit_signal[i][1]

TradeOfRow(t, rows, i) ==
    /\ t.ts_code = rows[i].ts_code
    /\ t.entry_date = rows[i].trade_date
    /\ <<t.exit_date>> = frame.exit_signal[i]

\* C11: a finished run returns exactly the trades of the entry rows whose
\* exit resolves, none for an entry whose exit is NA or has no price row, and
\* an equity curve with a point for every trade date of the bars.
C11_UnresolvedExitsSkipped ==
    (pc = "bt_done" /\ strategy.name = OtherStrategy) =>
        LET rows == WorkingDaily(dataset.rows)
            resolved == {i \in Indices(rows) : HasResolvableExit(rows, i)}
            curve == result.equity_curve
        IN  /\ Len(result.trades) = Cardinality(resolved)
            /\ \A i \in resolved :
                  \E k \in Indices(result.trades) : TradeOfRow(result.trades[k], rows, i)
            /\ \A k \in Indices(result.trades) :
                  \E i \in resolved : TradeOfRow(result.trades[k], rows, i)
            /\ {curve[k].trade_date : k \in Indices(curve)}
                  = {rows[i].trade_date : i \in Indices(rows)}

\* One entry whose exit date has no bar of the instrument, next to an entry
\* that trades.
C11_Witness ==
    /\ pc = "bt_done"
    /\ strategy.name = OtherStrategy
    /\ Len(result.trades) = 1
    /\ \E i \in Indices(dataset.rows) :
          /\ frame.entry_signal[i]
          /\ frame.exit_signal[i] # <<>>
          /\ ~ HasResolvableExit(WorkingDaily(dataset.rows), i)

RECURSIVE GrowthOf(_, _)
\* The product of (1 + ret_net) over the trades with index in the set.
GrowthOf(trades, indices) ==
    IF indices = {} THEN FracOne
    ELSE LET k == CHOOSE k \in indices : TRUE
         IN  FracMul(FracAdd(FracOne, trades[k].ret_net), GrowthOf(trades, indices \ {k}))

\* C12: the equity curve has one point per distinct trade date of the bars,
\* in strictly ascending order, and each point is the previous one (1.0 before
\* the first) times (1 + ret_net) of every trade exiting on its date.
C12_EquityCurveCompounds ==
    (pc = "bt_done" /\ strategy.name = OtherStrategy) =>
        LET rows == WorkingDaily(dataset.rows)
            trades == result.trades
            curve == result.equity_curve
            exiting(date) == {k \in Indices(trades) : trades[k].exit_date = date}
        IN  /\ Len(curve) = Cardinality({rows[i].trade_date : i \in Indices(rows)})
            /\ \A i \in Indices(rows) :
                  \E k \in Indices(curve) : curve[k].trade_date = rows[i].trade_date
            /\ \A k \in Indices(curve) :
                  /\ k > 1 => curve[k - 1].trade_date < curve[k].trade_date
                  /\ curve[k].equity =
                        FracMul(IF k = 1 THEN FracOne ELSE curve[k - 1].equity,
                                GrowthOf(trades, exiting(curve[k].trade_date)))

\* Two dates: none exits on the first, two trades exit on the second.
C12_Witness ==
    /\ pc = "bt_done"
    /\ strategy.name = OtherStrategy
    /\ Len(result.equity_curve) = 2
    /\ Len(result.trades) = 2
    /\ result.equity_curve[1].equity = FracOne
    /\ result.equity_curve[2].equity # FracOne
    /\ \A k \in Indices(result.trades) :
          result.trades[k].exit_date = result.equity_curve[2].trade_date

(***************************************************************************)
(* Claims about add_next_day_returns (SpecReturns).                        *)
(***************************************************************************)
\* Row j of the same instrument comes after row i: on a later date, or on
\* the same date further down the table.
LaterRow(t, i, j) ==
    /\ t[j].ts_code = t[i].ts_code
    /\ \/ NormalizeTradeDate(t[j].trade_date) > NormalizeTradeDate(t[i].trade_date)
       \/ /\ NormalizeTradeDate(t[j].trade_date) = NormalizeTradeDate(t[i].trade_date)
          /\ j > i

LaterRows(t, i) == {j \in Indices(t) : LaterRow(t, i, j)}

\* The instrument's next row after row i, which has later rows.
NextRow(t, i) ==
    CHOOSE j \in LaterRows(t, i) : \A h \in LaterRows(t, i) : h = j \/ LaterRow(t, j, h)

\* next / close - 1 in float arithmetic: NaN when either is missing.
ReturnOver(next, close) ==
    IF next = NaN \/ close = NaN THEN <<>>
    ELSE <<FracSub(Frac(next, close), FracOne)>>

\* C13: the last row of every instrument has both returns NaN (not zero);
\* every other row with a non-zero close has next_open_ret = next row's open /
\* close - 1 and next_close_ret = next row's close / close - 1.
C13_ForwardReturns ==
    pc = "rt_done" =>
        \A i \in Indices(daily_df) :
            IF LaterRows(daily_df, i) = {}
            THEN /\ prepared[i].next_open_ret = <<>>
                 /\ prepared[i].next_close_ret = <<>>
            ELSE daily_df[i].close # 0 =>
                    LET next == daily_df[NextRow(daily_df, i)]
                    IN  /\ prepared[i].next_open_ret
                              = ReturnOver(next.open, daily_df[i].close)
                        /\ prepared[i].next_close_ret
                              = ReturnOver(next.close, daily_df[i].close)

\* An instrument with two rows given in reverse order: the earlier has both
\* returns, different from each other; the later has none.
C13_Witness ==
    /\ pc = "rt_done"
    /\ \E i, j \in Indices(daily_df) :
          /\ i > j
          /\ LaterRows(daily_df, i) = {j}
          /\ prepared[i].next_open_ret # <<>>
          /\ prepared[i].next_close_ret # <<>>
          /\ prepared[i].next_open_ret # prepared[i].next_close_ret
          /\ prepared[j].next_open_ret = <<>>

\* The output keeps the input's rows, in the input's order.
SameRowsInOrder ==
    /\ Len(prepared) = Len(daily_df)
    /\ \A i \in Indices(daily_df) :
          /\ prepared[i].ts_code = daily_df[i].ts_code
          /\ prepared[i].trade_date = daily_df[i].trade_date
          /\ prepared[i].open = daily_df[i].open
          /\ prepared[i].close = daily_df[i].close

LimitCallOf(function) == limit_call # <<>> /\ limit_call.function = function

\* The is_st cells that say whether the instrument is under special
\* treatment: the bools and the texts yes / 0.  A NaN cell and the text abc
\* say neither.
IsStKnown(instrument_row) == instrument_row.is_st \in {"True", "False", "' Yes '", "'0'"}
IsSt(instrument_row) == FlagMeaning(instrument_row.is_st)

\* The rule category the resolution order names for an instrument: ST for
\* special treatment, else the board, else MAIN when the merged rules have
\* no entry for the board.
ResolvedCategory(instrument_row, limit_rules) ==
    IF IsSt(instrument_row) THEN "ST"
    ELSE IF StripUpper(instrument_row.board) \in DOMAIN limit_rules
         THEN StripUpper(instrument_row.board)
         ELSE "MAIN"

ElapsedDays(call) == call.trade_date - call.instrument_row.list_date[1]

\* The ipo_unlimited_days of the rule category an instrument resolves to.
ResolvedUnlimitedDays(call) ==
    LET limit_rules == LoadRules(call.rules_path)
    IN  limit_rules[ResolvedCategory(call.instrument_row, limit_rules)].ipo_unlimited_days

\* C16: is_price_limit_applicable returns true for an instrument without a
\* listing date; otherwise it returns true exactly when the calendar days from
\* the listing date to the trade date are at least the resolved
\* ipo_unlimited_days, so it is true on the day the two are equal and false
\* the day before.
C16_ApplicableFromUnlimitedDays ==
    (LimitCallOf("is_price_limit_applicable") /\ IsStKnown(limit_call.instrument_row)) =>
        IF limit_call.instrument_row.list_date = <<>>
        THEN limit_call.returned = TRUE
        ELSE /\ limit_call.returned =
                    (ElapsedDays(limit_call) >= ResolvedUnlimitedDays(limit_call))
             /\ ElapsedDays(limit_call) = ResolvedUnlimitedDays(limit_call) =>
                    limit_call.returned = TRUE
             /\ ElapsedDays(limit_call) = ResolvedUnlimitedDays(limit_call) - 1 =>
                    limit_call.returned = FALSE

\* A STAR instrument on the fifth day after its listing, the first day on
\* which the limit applies to it.
C16_Witness ==
    /\ LimitCallOf("is_price_limit_applicable")
    /\ limit_call.instrument_row.board = "star"
    /\ limit_call.instrument_row.is_st = "False"
    /\ limit_call.instrument_row.list_date # <<>>
    /\ ElapsedDays(limit_call) = 5
    /\ limit_call.returned = TRUE

\* The cents of a price, for a price that is a whole number of cents.
PriceCents(price) == price \div CentsToPrice(1)

\* C17: compute_limit_price returns pre_close * (1 + limit_up), rounded to
\* two decimals with ties rounded up: the result is a whole number of cents,
\* the product is less than half a cent above it and at most half a cent
\* below it; pre_close 10 and limit_up 0.10 give 11.00.
C17_LimitPriceRoundsHalfUp ==
    LimitCallOf("compute_limit_price") =>
        LET product_x100 == limit_call.pre_close * (100 + limit_call.up)
            returned_x100 == limit_call.returned * 100
        IN  /\ limit_call.returned = CentsToPrice(PriceCents(limit_call.returned))
            /\ 2 * (product_x100 - returned_x100) < 100 * CentsToPrice(1)
            /\ 2 * (returned_x100 - product_x100) <= 100 * CentsToPrice(1)
            /\ (limit_call.pre_close = CentsToPrice(1000) /\ limit_call.up = 10) =>
                   limit_call.returned = CentsToPrice(1100)

\* 10.05 at limit_up 0.10 is 11.055, a tie, and went up to 11.06; rounding
\* half to even would have agreed here, 10.15 at 0.10 (11.165 to 11.17) is
\* where it would not.
C17_Witness ==
    /\ LimitCallOf("compute_limit_price")
    /\ limit_call.pre_close = CentsToPrice(1015)
    /\ limit_call.up = 10
    /\ limit_call.returned = CentsToPrice(1117)

(***************************************************************************)
(* Claims about the filters (checked under SpecFilter).                    *)
(***************************************************************************)
\* The input rows a filter is to keep: for exclude_suspended the rows of
\* strictly positive volume, for exclude_unlimited_days the rows on which
\* price limits apply, by the table's price_limit_applicable column or, for a
\* table without it, by the limit rules.
FilterSurvivors ==
    { i \in Indices(daily_df.rows) :
        LET row == daily_df.rows[i]
        IN  IF frame.fn = "exclude_suspended"
            THEN row.vol # NaN /\ row.vol > 0
            ELSE IF "price_limit_applicable" \in daily_df.columns
                 THEN row.price_limit_applicable
                 ELSE IsPriceLimitApplicable(
                          GetInstrumentRow(BuildInstrumentLookup(frame.instruments_df),
                                           row.ts_code),
                          row.trade_date.ymd, "None") }

\* The filter returned the table's columns and, for the surviving input rows
\* taken in input order, the rows expected[i].
FilterReturned(expected) ==
    /\ prepared.columns = daily_df.columns
    /\ Len(prepared.rows) = Cardinality(FilterSurvivors)
    /\ \E idx \in [Indices(prepared.rows) -> FilterSurvivors] :
          /\ \A k, l \in Indices(prepared.rows) : k < l => idx[k] < idx[l]
          /\ \A k \in Indices(prepared.rows) : prepared.rows[k] = expected[idx[k]]

\* C18 as stated: each filter returns exactly the input rows it is to keep,
\* in the input's relative order, every column value unchanged.
C18_FiltersKeepRowsUnchanged ==
    (pc = "ft_done" /\ frame.raised = "") => FilterReturned(daily_df.rows)

\* C18, amended: each filter returns exactly the rows it is to keep, in the
\* input's relative order, every column value unchanged except that
\* exclude_unlimited_days returns trade_date as the YYYYMMDD text of the
\* same day.
C18_FiltersKeepRowsUpToDateText ==
    (pc = "ft_done" /\ frame.raised = "") =>
        FilterReturned(
            [i \in Indices(daily_df.rows) |->
                IF frame.fn = "exclude_unlimited_days"
                THEN [daily_df.rows[i] EXCEPT
                          !.trade_date = [ymd |-> @.ymd, dashed |-> FALSE]]
                ELSE daily_df.rows[i]])

\* exclude_unlimited_days, deciding by the limit rules, removed a row and
\* kept a row whose trade_date was in the dashed form.
C18_Witness ==
    /\ pc = "ft_done"
    /\ frame.raised = ""
    /\ frame.fn = "exclude_unlimited_days"
    /\ "price_limit_applicable" \notin daily_df.columns
    /\ Len(daily_df.rows) = 2
    /\ FilterSurvivors = {2}
    /\ daily_df.rows[2].trade_date.dashed
    /\ Len(prepared.rows) = 1

(***************************************************************************)
(* Claims about the prepared dataset (checked under SpecPrepare).          *)
(***************************************************************************)
\* C20: in the prepared dataset a suspension breaks the streak: when a stock
\* is limit-up on day D and on a later day D', and between them it has a
\* bar of non-positive volume, which the filters remove, streak_up on D' is
\* 1, whether or not another stock has a row on the removed day.
C20_SuspensionBreaksStreak ==
    pc = "pp_done" =>
        \A p, q \in Indices(prepared), m \in Indices(daily_df.rows) :
            (/\ prepared[p].ts_code = daily_df.rows[m].ts_code
             /\ prepared[q].ts_code = daily_df.rows[m].ts_code
             /\ prepared[p].trade_date.ymd < daily_df.rows[m].trade_date.ymd
             /\ daily_df.rows[m].trade_date.ymd < prepared[q].trade_date.ymd
             /\ daily_df.rows[m].vol <= 0
             /\ prepared[p].label_limit_up
             /\ prepared[q].label_limit_up)
                => prepared[q].streak_up = 1

(***************************************************************************)
(* Claims about the reference strategies (checked under SpecBacktest).     *)
(***************************************************************************)
\* Signal generation of the current run_backtest call has ended normally.
SignalsGenerated ==
    pc \in {"bt_finally", "bt_trades", "bt_done"} /\ frame.raised = ""

\* The row is buyable under the fill model: always under IDEAL, under
\* CONSERVATIVE when it is neither sealed nor one-word.
BuyableUnder(row, fill_model) ==
    fill_model = "CONSERVATIVE" => (~ row.label_sealed /\ ~ row.label_one_word)

\* C21: for both reference strategies the entry signal of a row is true exactly
\* when the row is limit-up, buyable under the active fill model and meets the
\* strategy's condition (streak_up = 1 for the first-limit-up strategy, not
\* one-word for the other); the first strategy's trades exit at the close of
\* the exit day, the second's at its open.
C21_ReferenceEntriesAndExitPrice ==
    /\ SignalsGenerated =>
          \A i \in Indices(dataset.rows) :
              LET row == dataset.rows[i]
              IN  frame.entry_signal[i] <=>
                      /\ row.label_limit_up
                      /\ BuyableUnder(row, frame.fill_model)
                      /\ IF strategy.name = BuyFirst
                         THEN row.streak_up = 1
                         ELSE ~ row.label_one_word
    /\ pc = "bt_done" =>
          \A k \in Indices(result.trades) :
              \E j \in Indices(dataset.rows) :
                  LET row == dataset.rows[j]
                      cost == frame.fee_bps + frame.slippage_bps
                  IN  /\ row.ts_code = result.trades[k].ts_code
                      /\ NormalizeTradeDate(row.trade_date) = result.trades[k].exit_date
                      /\ FracIs(result.trades[k].exit_price,
                                (IF strategy.name = BuyFirst THEN row.close ELSE row.open)
                                    * (10000 - cost),
                                10000)

\* A CONSERVATIVE run of the first-limit-up strategy: an opened first board
\* enters and is sold at the next close, which differs from the next open;
\* the next day, an opened second board, is limit-up and buyable and has no
\* entry.
C21_Witness ==
    /\ pc = "bt_done"
    /\ strategy.name = BuyFirst
    /\ frame.fill_model = "CONSERVATIVE"
    /\ Len(dataset.rows) = 2
    /\ frame.entry_signal = <<TRUE, FALSE>>
    /\ dataset.rows[2].label_limit_up
    /\ BuyableUnder(dataset.rows[2], "CONSERVATIVE")
    /\ dataset.rows[2].open # dataset.rows[2].close
    /\ Len(result.trades) = 1

(***************************************************************************)
(* Claims about the exit signals (checked under SpecExits).                *)
(***************************************************************************)
\* Row j of the same instrument follows row i in ascending date order (rows
\* of one date in table order).
FollowsRow(rows, i, j) ==
    /\ rows[j].ts_code = rows[i].ts_code
    /\ \/ rows[j].trade_date > rows[i].trade_date
       \/ rows[j].trade_date = rows[i].trade_date /\ j > i

\* Row j is the next row of row i's instrument.
IsNextRow(rows, i, j) ==
    /\ FollowsRow(rows, i, j)
    /\ \A h \in Indices(rows) : FollowsRow(rows, i, h) => (h = j \/ FollowsRow(rows, j, h))

\* The number of market-calendar dates strictly between two dates.
CalendarDatesBetween(rows, d1, d2) ==
    Cardinality({rows[h].trade_date : h \in Indices(rows)} \cap ((d1 + 1)..(d2 - 1)))

\* C22: the exit date of an entry signal on a row is the trade date of the
\* same instrument's next row in ascending date order, whatever the number of
\* calendar dates in between, and NA when the row is the instrument's last;
\* a row without an entry signal has no exit date.
C22_ExitIsNextRowDate ==
    pc = "ex_done" =>
        \A i \in Indices(dataset.rows) :
            IF frame.entry_signal[i]
            THEN /\ \A j \in Indices(dataset.rows) :
                        IsNextRow(dataset.rows, i, j) =>
                            frame.exit_signal[i] = <<dataset.rows[j].trade_date>>
                 /\ (\A j \in Indices(dataset.rows) : ~ FollowsRow(dataset.rows, i, j)) =>
                        frame.exit_signal[i] = <<>>
            ELSE frame.exit_signal[i] = <<>>

\* An instrument is limit-up on two days with a calendar date, observed only
\* on the other instrument, in between: the streak restarts at 1 on the later
\* day, and the entry on the earlier day exits on the later day.
C22_Witness ==
    /\ pc = "ex_done"
    /\ \E i, j \in Indices(dataset.rows) :
          /\ IsNextRow(dataset.rows, i, j)
          /\ CalendarDatesBetween(dataset.rows, dataset.rows[i].trade_date,
                                  dataset.rows[j].trade_date) = 1
          /\ dataset.rows[i].label_limit_up
          /\ dataset.rows[j].label_limit_up
          /\ dataset.rows[j].streak_up = 1
          /\ frame.entry_signal[i]
          /\ frame.exit_signal[i] = <<dataset.rows[j].trade_date>>

(***************************************************************************)
(* Further claims about the backtest simulator (SpecBacktest).             *)
(***************************************************************************)
\* The rows of the table with the instrument and date of the trade's exit.
ExitKeyRows(t) ==
    {j \in Indices(dataset.rows) :
        /\ dataset.rows[j].ts_code = t.ts_code
        /\ NormalizeTradeDate(dataset.rows[j].trade_date) = t.exit_date}

\* The price column a strategy exits at, read from a row.
ExitBasePrice(row) == IF strategy.name = BuyNonOneWord THEN row.open ELSE row.close

\* C25: when several rows have the (instrument, date) key of a trade's exit,
\* the exit price is taken from the one that comes last in input order.
C25_LastDuplicatePricesExit ==
    pc = "bt_done" =>
        \A k \in Indices(result.trades) :
            \A j \in ExitKeyRows(result.trades[k]) :
                (\A h \in ExitKeyRows(result.trades[k]) : h <= j) =>
                    FracIs(result.trades[k].exit_price,
                           ExitBasePrice(dataset.rows[j])
                               * (10000 - (frame.fee_bps + frame.slippage_bps)),
                           10000)

\* A trade whose exit key has two rows with different prices in the exit column.
C25_Witness ==
    /\ pc = "bt_done"
    /\ \E k \in Indices(result.trades) :
          \E i, j \in ExitKeyRows(result.trades[k]) :
              /\ i < j
              /\ ExitBasePrice(dataset.rows[i]) # ExitBasePrice(dataset.rows[j])

\* The two trades have the same instrument, dates, prices and net return.
SameTrade(t, u) ==
    /\ t.ts_code = u.ts_code
    /\ t.entry_date = u.entry_date
    /\ t.exit_date = u.exit_date
    /\ t.entry_price = u.entry_price
    /\ t.exit_price = u.exit_price
    /\ t.ret_net = u.ret_net

\* C26: for the same bars, reference strategy and costs, every trade of the
\* CONSERVATIVE run appears in the IDEAL run with the same instrument, entry
\* date, exit date, prices and net return, and the CONSERVATIVE run has no
\* more trades than the IDEAL run.
C26_ConservativeTradesWithinIdeal ==
    (pc = "bt_done" /\ frame.fill_model = "CONSERVATIVE") =>
        LET ideal == FreshRun(strategy.name, WorkingDaily(dataset.rows), "IDEAL",
                              frame.fee_bps + frame.slippage_bps).trades
        IN  /\ \A k \in Indices(result.trades) :
                  \E h \in Indices(ideal) : SameTrade(result.trades[k], ideal[h])
            /\ Len(result.trades) <= Len(ideal)

\* A CONSERVATIVE run with a trade, on bars with a sealed row that enters
\* under IDEAL only.
C26_Witness ==
    /\ pc = "bt_done"
    /\ frame.fill_model = "CONSERVATIVE"
    /\ result.trades # <<>>
    /\ \E i \in Indices(dataset.rows) :
          /\ ~ frame.entry_signal[i]
          /\ SignalsUnder(strategy.name, WorkingDaily(dataset.rows), "IDEAL").entry[i]

(***************************************************************************)
(* Further claims about run_backtest with any signals (SpecSignals).       *)
(***************************************************************************)
\* C27: every returned trade is counted once in the equity curve: its
\* exit_date is a trade date of the bars and the date of exactly one point of
\* the curve, and the last equity value is the product of (1 + ret_net) over
\* all returned trades, 1.0 when there are none.
C27_EveryTradeCountedOnce ==
    (pc = "bt_done" /\ strategy.name = OtherStrategy) =>
        LET rows == WorkingDaily(dataset.rows)
            trades == result.trades
            curve == result.equity_curve
        IN  /\ \A k \in Indices(trades) :
                  /\ \E i \in Indices(rows) : rows[i].trade_date = trades[k].exit_date
                  /\ Cardinality({p \in Indices(curve) :
                                     curve[p].trade_date = trades[k].exit_date}) = 1
            /\ curve # <<>>
            /\ curve[Len(curve)].equity = GrowthOf(trades, Indices(trades))
            /\ trades = <<>> => curve[Len(curve)].equity = FracOne

\* Two trades that exit on different dates, each with a non-zero return.
C27_Witness ==
    /\ pc = "bt_done"
    /\ strategy.name = OtherStrategy
    /\ Len(result.trades) = 2
    /\ result.trades[1].exit_date # result.trades[2].exit_date
    /\ result.trades[1].ret_net # FracOfInt(0)
    /\ result.trades[2].ret_net # FracOfInt(0)
    /\ result.equity_curve[Len(result.equity_curve)].equity # FracOne

(***************************************************************************)
(* Claims about the dates of the reference strategies' trades              *)
(* (SpecBacktest).                                                         *)
(***************************************************************************)
\* C28: every trade returned by run_backtest with a reference strategy has an
\* exit_date strictly later than its entry_date, for any bars, bars with
\* repeated (instrument, date) rows included.
C28_ExitAfterEntry ==
    pc = "bt_done" =>
        \A k \in Indices(result.trades) :
            result.trades[k].exit_date > result.trades[k].entry_date

(***************************************************************************)
(* Claims about the two filters applied one after the other (SpecFilter).  *)
(***************************************************************************)
\* The order the state machine did not run raises: exclude_unlimited_days is
\* its first step when the run ended with it, its second step otherwise.
OtherOrderRaises ==
    IF frame.fn = "exclude_unlimited_days"
    THEN TradeDatesRaise(daily_df.rows)
    ELSE TradeDatesRaise(ExcludeSuspended(daily_df).rows)

\* The table the other order returns, with the same instruments table.
OtherOrderReturns ==
    IF frame.fn = "exclude_unlimited_days"
    THEN ExcludeSuspended(ExcludeUnlimitedDays(daily_df, frame.instruments_df, "None"))
    ELSE ExcludeUnlimitedDays(ExcludeSuspended(daily_df), frame.instruments_df, "None")

CalendarOnlyTable(df, code) ==
    LET own == SelectSeq(df, LAMBDA row : row.ts_code = code)
        trade_dates ==
            SortedSeqOf({NormalizeTradeDate(df[i].trade_date) : i \in Indices(df)}
                            \ {NormalizeTradeDate(own[i].trade_date) : i \in Indices(own)})
    IN  own \o [k \in Indices(trade_dates) |->
                   [ts_code |-> CHOOSE other \in Codes : other # code,
                    trade_date |-> [ymd |-> trade_dates[k], dashed |-> FALSE],
                    label_limit_up |-> FALSE]]

\* The streak_up values of the instrument's rows, in table order.
StreaksOf(streaked, code) ==
    LET own == SelectSeq(streaked, LAMBDA row : row.ts_code = code)
    IN  [k \in Indices(own) |-> own[k].streak_up]

\* The table with the row inserted at position p.
InsertRow(df, p, row) == SubSeq(df, 1, p - 1) \o <<row>> \o SubSeq(df, p, Len(df))

\* Rows i and j of one instrument are limit-up on consecutive dates of the
\* table's calendar.
ConsecutiveLimitUpDays(df, i, j) ==
    /\ df[i].ts_code = df[j].ts_code
    /\ df[i].label_limit_up /\ df[j].label_limit_up
    /\ NormalizeTradeDate(df[i].trade_date) < NormalizeTradeDate(df[j].trade_date)
    /\ \A h \in Indices(df) :
          ~ (/\ NormalizeTradeDate(df[i].trade_date) < NormalizeTradeDate(df[h].trade_date)
             /\ NormalizeTradeDate(df[h].trade_date) < NormalizeTradeDate(df[j].trade_date))

\* The row is of another instrument than row i's, on a date strictly between
\* the dates of rows i and j.
SplitsDays(df, i, j, row) ==
    /\ row.ts_code # df[i].ts_code
    /\ NormalizeTradeDate(df[i].trade_date) < NormalizeTradeDate(row.trade_date)
    /\ NormalizeTradeDate(row.trade_date) < NormalizeTradeDate(df[j].trade_date)

\* C24: the streak of an instrument depends on the others only through the
\* market calendar: its streak_up values are those it gets in any table with
\* the same rows of the instrument and the same set of trade dates, whatever
\* the other instrument's rows and labels and whichever instrument is
\* processed first; and a row of another instrument added on a new date
\* between two consecutive limit-up days of the instrument, before the first
\* row of the table or after its last, makes the streak of the later day 1.
C24_StreakSeesOthersThroughCalendar ==
    pc = "streaked" =>
        /\ \A code \in Codes :
              \A other_df \in {CalendarOnlyTable(daily_df, code)} :
                  StreaksOf(streak_out, code)
                      = StreaksOf(ComputeLimitupStreak(other_df), code)
        /\ \A i, j \in Indices(daily_df) :
              ConsecutiveLimitUpDays(daily_df, i, j) =>
                  \A row \in {r \in StreakRows : SplitsDays(daily_df, i, j, r)},
                     p \in {1, Len(daily_df) + 1} :
                      \A split_df \in {InsertRow(daily_df, p, row)} :
                          ComputeLimitupStreak(split_df)
                              [IF j >= p THEN j + 1 ELSE j].streak_up = 1

\* An instrument with a streak of 2 over two limit-up days two dates apart,
\* next to a limit-up row of the other instrument.
C24_Witness ==
    /\ pc = "streaked"
    /\ Len(daily_df) = 3
    /\ \E i, j, h \in Indices(daily_df) :
          /\ ConsecutiveLimitUpDays(daily_df, i, j)
          /\ \E row \in StreakRows : SplitsDays(daily_df, i, j, row)
          /\ streak_out[j].streak_up = 2
          /\ daily_df[h].ts_code # daily_df[i].ts_code
          /\ daily_df[h].label_limit_up

(***************************************************************************)
(* The simulator against the forward-return engine (SpecBacktest).         *)
(***************************************************************************)
\* The forward return of a row that matches the strategy's exit: the next
\* close for the first-limit-up strategy, the next open for the other.
ForwardReturnFor(returns_row) ==
    IF strategy.name = BuyFirst
    THEN returns_row.next_close_ret
    ELSE returns_row.next_open_ret

\* C29: for bars with unique (instrument, date) keys and zero fee and
\* slippage, every trade of the first-limit-up strategy has the net return
\* add_next_day_returns computes as next_close_ret for its entry row, and
\* every trade of the non-one-word strategy that row's next_open_ret.
C29_TradesMatchForwardReturns ==
    (/\ pc = "bt_done"
     /\ frame.fee_bps + frame.slippage_bps = 0
     /\ UniqueKeys(dataset.rows)) =>
        \A k \in Indices(result.trades), i \in Indices(dataset.rows) :
            (/\ dataset.rows[i].ts_code = result.trades[k].ts_code
             /\ NormalizeTradeDate(dataset.rows[i].trade_date) = result.trades[k].entry_date)
                => ForwardReturnFor(AddNextDayReturns(dataset.rows)[i])
                       = <<result.trades[k].ret_net>>

\* A zero-cost trade of the non-one-word strategy on bars given in descending
\* date order, whose entry row has different next-open and next-close returns.
C29_Witness ==
    /\ pc = "bt_done"
    /\ frame.fee_bps + frame.slippage_bps = 0
    /\ UniqueKeys(dataset.rows)
    /\ strategy.name = BuyNonOneWord
    /\ Len(result.trades) = 1
    /\ Len(dataset.rows) = 2
    /\ NormalizeTradeDate(dataset.rows[1].trade_date) = result.trades[1].exit_date
    /\ AddNextDayReturns(dataset.rows)[2].next_open_ret
          # AddNextDayReturns(dataset.rows)[2].next_close_ret
    /\ result.trades[1].ret_net # FracOfInt(0)

(***************************************************************************)
(* The labels under the CONSERVATIVE fill model (SpecLabel).               *)
(***************************************************************************)
\* On the row label_one_word implies label_sealed, and can_buy_limitup_day
\* under CONSERVATIVE is true exactly when label_limit_up and label_opened
\* are both true.
ConservativeBuysOpened(row) ==
    /\ row.label_one_word => row.label_sealed
    /\ (CanBuyLimitupDay(RowToDict(row), "FillModel.CONSERVATIVE") = "True")
          <=> (row.label_limit_up /\ row.label_opened)

\* C30 as stated: for bars whose four labels were computed by label calls
\* with one epsilon, label_one_word implies label_sealed, and
\* can_buy_limitup_day under CONSERVATIVE is true exactly on the rows where
\* label_limit_up and label_opened are both true.
C30_ConservativeBuysOpenedOneEps ==
    (FullyLabeled /\ label_call.one_eps) =>
        \A i \in Indices(labeled.rows) : ConservativeBuysOpened(labeled.rows[i])

\* C30, amended: the same for bars whose four labels were computed with one
\* epsilon and the same instruments and rules.
C30_ConservativeBuysOpenedOneSetting ==
    (FullyLabeled /\ label_call.one_setting) =>
        \A i \in Indices(labeled.rows) : ConservativeBuysOpened(labeled.rows[i])

\* A bar labeled under one setting that closed at the limit after trading
\* below it: limit-up, opened, not sealed, buyable under CONSERVATIVE.
C30_Witness ==
    /\ FullyLabeled
    /\ label_call.one_setting
    /\ \E i \in Indices(labeled.rows) :
          /\ labeled.rows[i].label_limit_up
          /\ labeled.rows[i].label_opened
          /\ ~ labeled.rows[i].label_sealed
          /\ CanBuyLimitupDay(RowToDict(labeled.rows[i]), "FillModel.CONSERVATIVE") = "True"
====
